---- MODULE Spec2Model ----
(***************************************************************************)
(* A model of infodancer/auth: the AuthRouter (address decomposition and   *)
(* routing to a tenant's credential agent or the global fallback), the     *)
(* FilesystemDomainProvider (the tenant registry with its double-checked   *)
(* cache), the forwarding layer (forwardChain, mailAuthAgent,              *)
(* SmartDeliveryAgent), and the tenant configuration (mergeConfig, the     *)
(* forwarding maps loadDomain builds from it).                             *)
(*                                                                         *)
(* Strings are sequences of one-character strings, so that splitting,      *)
(* joining and case folding are computed, not assumed.                     *)
(***************************************************************************)
EXTENDS Integers, Sequences, FiniteSets, TLC

VARIABLES
    \* ---- AuthRouter (src/unnamed/part_002) ----
    rProvider,   \* r.provider: nil, or the (case-folded) names it serves
    rFallback,   \* r.fallback: TRUE when a fallback agent is configured
    rUsername,   \* the username argument of the call
    rPassword,   \* the password argument of the call
    rOut,        \* NotCalled before the call; afterwards the call's outcome
                 \* and the calls it made to the credential agents
    \* ---- FilesystemDomainProvider (src/domain/filesystem.go) ----
    defaults,    \* p.defaults != nil
    fs,          \* the tenant directories under basePath
    cache,       \* p.cache: key -> Domain (0: no entry)
    mu,          \* p.mu: the holder of the write lock and the read lockers
    domains,     \* every Domain built so far; a Domain's id is its index
    pc,          \* where each goroutine is
    arg,         \* the name argument of the goroutine's GetDomain call
    name,        \* GetDomain's local: the case-folded name
    domain,      \* GetDomain's local: the Domain it built (0: none)
    existing,    \* GetDomain's local: the entry found under the write lock
    returned,    \* history: <<name argument, Domain>> of every returned GetDomain
    discards,    \* history: the Domains built and then discarded by a loser
    nCalls,      \* history: calls started so far
    nCloseCalls, \* history: Close calls started so far
    seen,        \* history: the Domains already returned for the name, in any
                 \* letter case, when the goroutine's GetDomain call started
    laterReturns,\* history: the returns, before any Close call, of the calls
                 \* that started after a Domain had been returned for the name
    domainsOut,  \* the last Domains() call: the tree it read and its result
    failures,    \* history: <<name, error>> of every build failure logged
    closeOut,    \* the error the last Close returned: the cache keys of the
                 \* Domains whose Close failed ({}: nil)
    \* ---- forwarding (src/domain/forwarding.go, src/forwards/forwards.go) ----
    fwChain,     \* each tenant's forwardChain: userForwardsDir set, the two maps
    fwAgent,     \* what the provider serves for each name: a Domain with its
                 \* SmartDeliveryAgent, a Domain with no DeliveryAgent, or nothing
    fwStoreFails,\* the tenants whose inner store refuses deliveries
    fwFiles,     \* the per-user forward files, by tenant and file name
    fwOut,       \* the last call on the forwarding layer and its outcome
    fwBuilt,     \* history: the entry tenant's forward sources as they were
                 \* when its Domain was built: user file, tenant rules, base rules
    fwDisk,      \* the entry tenant's and the base-level forwarding rules as
                 \* they are configured now
    \* ---- tenant configuration (src/unnamed/part_004, loadDomain) ----
    cfgBase,     \* the provider-level DomainConfig (nil: none)
    cfgOverride, \* the tenant's own DomainConfig (nil: no config.toml)
    cfgOut,      \* the last call on these configurations and its outcome
    \* ---- forwards.ForwardMap (src/forwards/forwards.go) ----
    fmFile,      \* the forwards file Load is given
    fmRules,     \* the map[string]string FromMap is given
    fmMap,       \* the ForwardMap in use: how it was built, the error, the map
    fmOut,       \* history: every Resolve call made on that map
    \* ---- passwd file management (src/unnamed/part_007) ----
    pwFile,      \* the passwd file: whether it exists, and its lines
    pwOut,       \* the last AddUser, DeleteUser or ListUsers call and its outcome
    pwAdded,     \* history: the usernames added and not deleted since, in the
                 \* order of their AddUser calls
    pwOdd,       \* history: an AddUser was given a username that has a ":",
                 \* a blank at either end, or a leading "#"
    pwCalls      \* history: the AddUser and DeleteUser calls made so far

routerVars == <<rProvider, rFallback, rUsername, rPassword, rOut>>

registryVars == <<defaults, fs, cache, mu, domains, pc, arg, name, domain, existing,
                  returned, discards, nCalls, nCloseCalls, seen, laterReturns, failures,
                  closeOut, domainsOut>>

forwardVars == <<fwChain, fwAgent, fwStoreFails, fwFiles, fwOut, fwBuilt, fwDisk>>

configVars == <<cfgBase, cfgOverride, cfgOut>>

mapVars == <<fmFile, fmRules, fmMap, fmOut>>

passwdVars == <<pwFile, pwOut, pwAdded, pwOdd, pwCalls>>

vars == <<routerVars, registryVars, forwardVars, configVars, mapVars, passwdVars>>

Nil == "nil"

-----------------------------------------------------------------------------
(* Bounds *)

\* longest username given to the router
MaxUserLen == 5

\* goroutines calling the registry
NumProcs == 2

\* GetDomain and Close calls started in one behaviour
MaxCalls == 3

\* nested Deliver calls followed before a delivery is given up as not
\* returning; the longest chain of rules without a loop has four calls
\* (A@t by the tenant's map to a@o, back to a@t, by the user file to u@o)
MaxDepth == 4

\* lines of a forwards file
MaxLines == 2

\* AddUser and DeleteUser calls made on the passwd file in one behaviour
MaxEdits == 4

-----------------------------------------------------------------------------
(* Strings *)

\* every string over alphabet of length at most n
StringsUpTo(alphabet, n) == UNION {[1..k -> alphabet] : k \in 0..n}

\* strings.ToLower on one character
LowerChar(c) ==
    CASE c = "A" -> "a"
      [] c = "B" -> "b"
      [] c = "D" -> "d"
      [] c = "O" -> "o"
      [] c = "T" -> "t"
      [] c = "U" -> "u"
      [] OTHER -> c

\* strings.ToLower
ToLower(s) == [i \in 1..Len(s) |-> LowerChar(s[i])]

\* strings.Index(s, c) + 1: the first position of c in s, 0 when absent
FirstIndex(s, c) ==
    IF \E i \in 1..Len(s) : s[i] = c
    THEN CHOOSE i \in 1..Len(s) : s[i] = c /\ \A j \in 1..(i - 1) : s[j] # c
    ELSE 0

\* strings.LastIndex(s, c) + 1: the last position of c in s, 0 when absent
LastIndex(s, c) ==
    IF \E i \in 1..Len(s) : s[i] = c
    THEN CHOOSE i \in 1..Len(s) : s[i] = c /\ \A j \in (i + 1)..Len(s) : s[j] # c
    ELSE 0

\* strings.TrimSpace
TrimSpace(s) ==
    LET keep == {i \in 1..Len(s) : s[i] # " "}
    IN  IF keep = {} THEN <<>>
        ELSE SubSeq(s, CHOOSE i \in keep : \A j \in keep : i <= j,
                       CHOOSE i \in keep : \A j \in keep : i >= j)

\* strings.HasPrefix(s, "#")
IsComment(s) == Len(s) > 0 /\ s[1] = "#"

-----------------------------------------------------------------------------
(* AuthRouter: pure functions *)

ParseLocalPartLastPlus(localPart) ==
    LET idx == LastIndex(localPart, "+")
    IN  IF idx > 0
        THEN <<SubSeq(localPart, 1, idx - 1), SubSeq(localPart, idx + 1, Len(localPart))>>
        ELSE <<localPart, <<>>>>

\* ParseLocalPart: strings.Cut(localPart, "+"), <<base, extension>>
ParseLocalPart(localPart) ==
    LET idx == FirstIndex(localPart, "+")
    IN  IF idx > 0
        THEN <<SubSeq(localPart, 1, idx - 1), SubSeq(localPart, idx + 1, Len(localPart))>>
        ELSE <<localPart, <<>>>>

SplitUsernameFirstAt(username) ==
    LET idx == FirstIndex(username, "@")
    IN  IF idx > 0
        THEN <<SubSeq(username, 1, idx - 1), SubSeq(username, idx + 1, Len(username))>>
        ELSE <<username, <<>>>>

\* SplitUsername: split on the last "@", <<localPart, domainName>>
SplitUsername(username) ==
    LET idx == LastIndex(username, "@")
    IN  IF idx > 0
        THEN <<SubSeq(username, 1, idx - 1), SubSeq(username, idx + 1, Len(username))>>
        ELSE <<username, <<>>>>

-----------------------------------------------------------------------------
(* The credential agent interface, as the router sees it *)

ErrAuthFailed == "authentication failed"
ErrUserNotFound == "user not found"
ErrBackend == "backend failure"

\* What an AuthenticationAgent may answer to Authenticate: a session whose
\* User the agent filled in as it likes (Mailbox empty, Mailbox set to the
\* name it was given, or no User at all), or an error.
AuthAnswers == {"okMailboxEmpty", "okMailboxSet", "okNoUser", ErrAuthFailed, ErrUserNotFound}

\* What an AuthenticationAgent may answer to UserExists.
ExistsAnswers == {"yes", "no", ErrBackend}

\* a nil *auth.User, a nil *AuthSession, a nil *AuthResult, a nil *Domain
NoUser == [isNil |-> TRUE, Username |-> <<>>, Mailbox |-> <<>>]
NoSession == [isNil |-> TRUE, User |-> NoUser]
NoDomain == <<>>
NoResult == [isNil |-> TRUE, Session |-> NoSession, Domain |-> NoDomain, Extension |-> <<>>]

\* agent.Authenticate(ctx, username, password) for an agent that answers `answer`
AgentAuthenticate(answer, username) ==
    CASE answer = "okMailboxEmpty" ->
            [err |-> Nil,
             session |-> [isNil |-> FALSE,
                          User |-> [isNil |-> FALSE, Username |-> username, Mailbox |-> <<>>]]]
      [] answer = "okMailboxSet" ->
            [err |-> Nil,
             session |-> [isNil |-> FALSE,
                          User |-> [isNil |-> FALSE, Username |-> username, Mailbox |-> username]]]
      [] answer = "okNoUser" ->
            [err |-> Nil, session |-> [isNil |-> FALSE, User |-> NoUser]]
      [] OTHER ->
            [err |-> answer, session |-> NoSession]

\* agent.UserExists(ctx, username) for an agent that answers `answer`
AgentUserExists(answer) ==
    CASE answer = "yes" -> [exists |-> TRUE, err |-> Nil]
      [] answer = "no" -> [exists |-> FALSE, err |-> Nil]
      [] OTHER -> [exists |-> FALSE, err |-> answer]

\* r.provider.GetDomain(domainName): the served Domain (its name), or NoDomain.
\* The registry folds the case of the name before it looks it up.
ProviderGetDomain(provider, domainName) ==
    IF ToLower(domainName) \in provider.served THEN ToLower(domainName) ELSE NoDomain

-----------------------------------------------------------------------------
(* AuthRouter.AuthenticateWithDomain *)

\* the username handed to the fallback agent
FallbackUser(username) ==
    LET sp == SplitUsername(username)
        domainName == sp[2]
        pl == ParseLocalPart(sp[1])
        base == pl[1]
        extension == pl[2]
    IN  IF extension # <<>>
        THEN IF domainName # <<>> THEN base \o <<"@">> \o domainName ELSE base
        ELSE username

\* the session after the router's Mailbox normalisation
NormalizeMailbox(session, base, domainName) ==
    IF ~session.User.isNil
    THEN [session EXCEPT !.User.Mailbox = base]
    ELSE session

AuthenticateWithDomainFallsBack(provider, fallback, username, password, domAnswer, fbAnswer) ==
    LET sp == SplitUsername(username)
        localPart == sp[1]
        domainName == sp[2]
        pl == ParseLocalPart(localPart)
        base == pl[1]
        extension == pl[2]
        d == IF ~provider.isNil /\ domainName # <<>>
             THEN ProviderGetDomain(provider, domainName) ELSE NoDomain
        dom == AgentAuthenticate(domAnswer, base)
        domCall == [agent |-> "domain", domain |-> d, username |-> base, password |-> password]
        fb == AgentAuthenticate(fbAnswer, FallbackUser(username))
        fbCall == [agent |-> "fallback", domain |-> NoDomain,
                   username |-> FallbackUser(username), password |-> password]
    IN  IF d # NoDomain /\ dom.err = Nil
        THEN [err |-> Nil,
              result |-> [isNil |-> FALSE,
                          Session |-> NormalizeMailbox(dom.session, base, domainName),
                          Domain |-> d, Extension |-> extension],
              calls |-> <<domCall>>]
        ELSE IF fallback
        THEN [err |-> fb.err,
              result |-> IF fb.err = Nil
                         THEN [isNil |-> FALSE, Session |-> fb.session,
                               Domain |-> NoDomain, Extension |-> extension]
                         ELSE NoResult,
              calls |-> (IF d # NoDomain THEN <<domCall>> ELSE <<>>) \o <<fbCall>>]
        ELSE [err |-> IF d # NoDomain THEN dom.err ELSE ErrAuthFailed, result |-> NoResult,
              calls |-> IF d # NoDomain THEN <<domCall>> ELSE <<>>]

AuthenticateWithDomainNoMatchNotFound(provider, fallback, username, password, domAnswer, fbAnswer) ==
    LET sp == SplitUsername(username)
        domainName == sp[2]
        pl == ParseLocalPart(sp[1])
        base == pl[1]
        extension == pl[2]
        d == IF ~provider.isNil /\ domainName # <<>>
             THEN ProviderGetDomain(provider, domainName) ELSE NoDomain
        dom == AgentAuthenticate(domAnswer, base)
        domCall == [agent |-> "domain", domain |-> d, username |-> base, password |-> password]
        fb == AgentAuthenticate(fbAnswer, FallbackUser(username))
        fbCall == [agent |-> "fallback", domain |-> NoDomain,
                   username |-> FallbackUser(username), password |-> password]
    IN  IF d # NoDomain
        THEN [err |-> dom.err,
              result |-> IF dom.err # Nil THEN NoResult
                         ELSE [isNil |-> FALSE,
                               Session |-> NormalizeMailbox(dom.session, base, domainName),
                               Domain |-> d, Extension |-> extension],
              calls |-> <<domCall>>]
        ELSE IF fallback
        THEN [err |-> fb.err,
              result |-> IF fb.err # Nil THEN NoResult
                         ELSE [isNil |-> FALSE, Session |-> fb.session,
                               Domain |-> NoDomain, Extension |-> extension],
              calls |-> <<fbCall>>]
        ELSE [err |-> ErrUserNotFound, result |-> NoResult, calls |-> <<>>]

\* AuthenticateWithDomain(ctx, username, password): <<result, err>> and the
\* calls made to the credential agents, in order.  domAnswer and fbAnswer
\* are what the resolved domain's agent and the fallback agent answer.
AuthenticateWithDomain(provider, fallback, username, password, domAnswer, fbAnswer) ==
    LET sp == SplitUsername(username)
        localPart == sp[1]
        domainName == sp[2]
        pl == ParseLocalPart(localPart)
        base == pl[1]
        extension == pl[2]
        d == IF ~provider.isNil /\ domainName # <<>>
             THEN ProviderGetDomain(provider, domainName) ELSE NoDomain
        dom == AgentAuthenticate(domAnswer, base)
        domCall == [agent |-> "domain", domain |-> d, username |-> base, password |-> password]
        fb == AgentAuthenticate(fbAnswer, FallbackUser(username))
        fbCall == [agent |-> "fallback", domain |-> NoDomain,
                   username |-> FallbackUser(username), password |-> password]
    IN  IF d # NoDomain
        THEN IF dom.err # Nil
             THEN [err |-> dom.err, result |-> NoResult, calls |-> <<domCall>>]
             ELSE [err |-> Nil,
                   result |-> [isNil |-> FALSE,
                               Session |-> NormalizeMailbox(dom.session, base, domainName),
                               Domain |-> d, Extension |-> extension],
                   calls |-> <<domCall>>]
        ELSE IF fallback
        THEN IF fb.err # Nil
             THEN [err |-> fb.err, result |-> NoResult, calls |-> <<fbCall>>]
             ELSE [err |-> Nil,
                   result |-> [isNil |-> FALSE, Session |-> fb.session,
                               Domain |-> NoDomain, Extension |-> extension],
                   calls |-> <<fbCall>>]
        ELSE [err |-> ErrAuthFailed, result |-> NoResult, calls |-> <<>>]

\* AuthRouter.Authenticate(ctx, username, password): <<session, err>> of the
\* AuthenticateWithDomain call it makes, and that call's agent calls
RouterAuthenticate(provider, fallback, username, password, domAnswer, fbAnswer) ==
    LET r == AuthenticateWithDomain(provider, fallback, username, password,
                                    domAnswer, fbAnswer)
    IN  IF r.err # Nil
        THEN [err |-> r.err, session |-> NoSession, calls |-> r.calls]
        ELSE [err |-> Nil, session |-> r.result.Session, calls |-> r.calls]

\* AuthRouter.UserExists(ctx, username): <<exists, err>> and the calls made
RouterUserExists(provider, fallback, username, domAnswer, fbAnswer) ==
    LET sp == SplitUsername(username)
        domainName == sp[2]
        base == ParseLocalPart(sp[1])[1]
        d == IF ~provider.isNil /\ domainName # <<>>
             THEN ProviderGetDomain(provider, domainName) ELSE NoDomain
        dom == AgentUserExists(domAnswer)
        fb == AgentUserExists(fbAnswer)
    IN  IF d # NoDomain
        THEN [exists |-> dom.exists, err |-> dom.err,
              calls |-> <<[agent |-> "domain", domain |-> d, username |-> base]>>]
        ELSE IF fallback
        THEN [exists |-> fb.exists, err |-> fb.err,
              calls |-> <<[agent |-> "fallback", domain |-> NoDomain,
                           username |-> FallbackUser(username)]>>]
        ELSE [exists |-> FALSE, err |-> Nil, calls |-> <<>>]

-----------------------------------------------------------------------------
(* forwards: ForwardMap and the per-user forward file *)

\* a ForwardMap with no rule
EmptyMap == [exact |-> <<>>, catchall |-> <<>>]

ResolveCatchallFirst(m, localpart) ==
    LET lp == ToLower(localpart)
    IN  IF Len(m.catchall) > 0
        THEN [targets |-> m.catchall, found |-> TRUE]
        ELSE IF lp \in DOMAIN m.exact
        THEN [targets |-> m.exact[lp], found |-> TRUE]
        ELSE [targets |-> <<>>, found |-> FALSE]

ResolveAsGiven(m, localpart) ==
    IF localpart \in DOMAIN m.exact
    THEN [targets |-> m.exact[localpart], found |-> TRUE]
    ELSE IF Len(m.catchall) > 0
    THEN [targets |-> m.catchall, found |-> TRUE]
    ELSE [targets |-> <<>>, found |-> FALSE]

\* ForwardMap.Resolve: the exact match first, then the catchall
Resolve(m, localpart) ==
    LET lp == ToLower(localpart)
    IN  IF lp \in DOMAIN m.exact
        THEN [targets |-> m.exact[lp], found |-> TRUE]
        ELSE IF Len(m.catchall) > 0
        THEN [targets |-> m.catchall, found |-> TRUE]
        ELSE [targets |-> <<>>, found |-> FALSE]

\* ForwardMap.Empty: no exact rule and no catchall; a nil map, which the
\* model holds as the map with no rule, is empty too
Empty(m) == DOMAIN m.exact = {} /\ Len(m.catchall) = 0

\* strings.Split(s, ",")
RECURSIVE SplitComma(_)
SplitComma(s) ==
    IF FirstIndex(s, ",") = 0 THEN <<s>>
    ELSE <<SubSeq(s, 1, FirstIndex(s, ",") - 1)>>
         \o SplitComma(SubSeq(s, FirstIndex(s, ",") + 1, Len(s)))

\* the targets of one comma-separated value: folded, trimmed, empty ones dropped
ParseTargets(v) ==
    LET parts == SplitComma(v)
        cleaned == [i \in 1..Len(parts) |-> TrimSpace(ToLower(parts[i]))]
        NonEmpty(t) == t # <<>>
    IN  SelectSeq(cleaned, NonEmpty)

\* a map[string]string of a [forwards] section: nil when the section is not
\* declared, else its keys and comma-separated values
NilForwards == [declared |-> FALSE, rules |-> <<>>]

FromMapKeepsCase(m) ==
    LET used == {k \in DOMAIN m.rules : ParseTargets(m.rules[k]) # <<>>}
    IN  [exact |-> [k \in used \ {<<"*">>} |-> ParseTargets(m.rules[k])],
         catchall |-> IF <<"*">> \in used THEN ParseTargets(m.rules[<<"*">>]) ELSE <<>>]

\* forwards.FromMap, for a map whose keys stay distinct when folded: a key
\* with no target is skipped, "*" sets the catchall, the others the exact map
FromMap(m) ==
    LET used == {k \in DOMAIN m.rules : ParseTargets(m.rules[k]) # <<>>}
        Key(f) == CHOOSE k \in used \ {<<"*">>} : ToLower(k) = f
    IN  [exact |-> [f \in {ToLower(k) : k \in used \ {<<"*">>}} |->
                        ParseTargets(m.rules[Key(f)])],
         catchall |-> IF <<"*">> \in used THEN ParseTargets(m.rules[<<"*">>]) ELSE <<>>]

\* a file that does not exist
MissingFile == [state |-> "missing", lines |-> <<>>]

\* a path that opens but cannot be read (a directory, a failing disk)
UnreadableFile == [state |-> "ioerror", lines |-> <<>>]

\* LoadTargets: one target per line, lower-cased and trimmed; blank lines and
\* comments skipped; a missing file is no error
LoadTargets(file) ==
    CASE file.state = "missing" -> [targets |-> <<>>, err |-> Nil]
      [] file.state = "ioerror" -> [targets |-> <<>>, err |-> "read user forwards file"]
      [] OTHER ->
            LET cleaned == [i \in 1..Len(file.lines) |-> TrimSpace(ToLower(file.lines[i]))]
                Keep(t) == t # <<>> /\ ~IsComment(t)
            IN  [targets |-> SelectSeq(cleaned, Keep), err |-> Nil]

\* strings.Cut(line, ":")
CutColon(line) ==
    LET idx == FirstIndex(line, ":")
    IN  IF idx > 0
        THEN [ok |-> TRUE, before |-> SubSeq(line, 1, idx - 1),
              after |-> SubSeq(line, idx + 1, Len(line))]
        ELSE [ok |-> FALSE, before |-> line, after |-> <<>>]

LoadLineKeepsFirst(text, m) ==
    LET line == TrimSpace(text)
        cut == CutColon(line)
        key == TrimSpace(ToLower(cut.before))
        targets == ParseTargets(cut.after)
    IN  IF line = <<>> \/ IsComment(line) \/ ~cut.ok \/ targets = <<>> THEN m
        ELSE IF key = <<"*">>
        THEN [m EXCEPT !.catchall = IF m.catchall = <<>> THEN targets ELSE m.catchall]
        ELSE [m EXCEPT !.exact = m.exact @@ (key :> targets)]

LoadLineKeepsCase(text, m) ==
    LET line == TrimSpace(text)
        cut == CutColon(line)
        key == TrimSpace(cut.before)
        targets == ParseTargets(cut.after)
    IN  IF line = <<>> \/ IsComment(line) \/ ~cut.ok \/ targets = <<>> THEN m
        ELSE IF key = <<"*">> THEN [m EXCEPT !.catchall = targets]
        ELSE [m EXCEPT !.exact = (key :> targets) @@ m.exact]

LoadLineStoresWildcard(text, m) ==
    LET line == TrimSpace(text)
        cut == CutColon(line)
        key == TrimSpace(ToLower(cut.before))
        targets == ParseTargets(cut.after)
    IN  IF line = <<>> \/ IsComment(line) \/ ~cut.ok \/ targets = <<>> THEN m
        ELSE [m EXCEPT !.catchall = IF key = <<"*">> THEN targets ELSE m.catchall,
                       !.exact = (key :> targets) @@ m.exact]

\* the body of Load's scanner loop: one line of the file applied to the map
\* read so far; blank lines, comments, lines without ":" and lines without a
\* target are skipped, "*" sets the catchall, any other key its exact entry
LoadLine(text, m) ==
    LET line == TrimSpace(text)
        cut == CutColon(line)
        key == TrimSpace(ToLower(cut.before))
        targets == ParseTargets(cut.after)
    IN  IF line = <<>> \/ IsComment(line) \/ ~cut.ok \/ targets = <<>> THEN m
        ELSE IF key = <<"*">> THEN [m EXCEPT !.catchall = targets]
        ELSE [m EXCEPT !.exact = (key :> targets) @@ m.exact]

\* the scanner loop over the lines of the file, in order
RECURSIVE LoadLines(_, _)
LoadLines(lines, m) ==
    IF lines = <<>> THEN m ELSE LoadLines(Tail(lines), LoadLine(Head(lines), m))

\* forwards.Load: a missing file gives the empty map, a file that cannot be
\* opened or read an error and no map
Load(file) ==
    CASE file.state = "missing" -> [m |-> EmptyMap, err |-> Nil]
      [] file.state = "ioerror" -> [m |-> EmptyMap, err |-> "open forwards file"]
      [] OTHER -> [m |-> LoadLines(file.lines, EmptyMap), err |-> Nil]

\* forwards.FromMap for any map: the range over the map visits its keys in no
\* fixed order, so of the keys that fold to the same name any one may be the
\* last to be stored
FromMapOutcomes(m) ==
    LET used == {k \in DOMAIN m.rules : ParseTargets(m.rules[k]) # <<>>}
        keys == used \ {<<"*">>}
        folded == {ToLower(k) : k \in keys}
        lasts == {f \in [folded -> keys] : \A n \in folded : ToLower(f[n]) = n}
    IN  {[exact |-> [n \in folded |-> ParseTargets(m.rules[last[n]])],
          catchall |-> IF <<"*">> \in used THEN ParseTargets(m.rules[<<"*">>]) ELSE <<>>] :
            last \in lasts}

-----------------------------------------------------------------------------
(* domain: forwardChain, mailAuthAgent, SmartDeliveryAgent *)

\* strings.Split(s, "/"): the elements of a path
RECURSIVE SplitSlash(_)
SplitSlash(s) ==
    IF FirstIndex(s, "/") = 0 THEN <<s>>
    ELSE <<SubSeq(s, 1, FirstIndex(s, "/") - 1)>>
         \o SplitSlash(SubSeq(s, FirstIndex(s, "/") + 1, Len(s)))

\* filepath.Join(dir, elem), with paths as the sequences of their elements
\* below basePath: the elements are appended one by one and the result is
\* cleaned, so that "" and "." leave the path as it is and ".." drops its
\* last element
RECURSIVE CleanOnto(_, _)
CleanOnto(path, elems) ==
    IF elems = <<>> THEN path
    ELSE CleanOnto(CASE Head(elems) \in {<<>>, <<".">>} -> path
                     [] Head(elems) = <<".", ".">> ->
                           IF path = <<>> THEN path ELSE SubSeq(path, 1, Len(path) - 1)
                     [] OTHER -> Append(path, Head(elems)),
                   Tail(elems))

Join(dir, elem) == CleanOnto(dir, SplitSlash(elem))

\* c.userForwardsDir of tenant t: {basePath}/{t}/user_forwards, the name of
\* the directory written "uf"
UserForwardsDir(t) == <<t, <<"u", "f">>>>

\* a file of each tenant's directory next to user_forwards, as the tenant's
\* forwards file or passwd file is: it has lines and can be read
SiblingName == <<"s">>
SiblingFile == [state |-> "ok", lines |-> << <<"v", "@", "o">> >>]

\* the file at a path below basePath: a user-forward file, the tenant's
\* sibling file, a directory (which opens but cannot be read), or nothing
FileAt(path) ==
    CASE Len(path) = 3 /\ path[1] \in DOMAIN fwFiles
            /\ <<path[1], path[2]>> = UserForwardsDir(path[1])
            /\ path[3] \in DOMAIN fwFiles[path[1]] -> fwFiles[path[1]][path[3]]
      [] Len(path) = 2 /\ path[1] \in DOMAIN fwFiles /\ path[2] = SiblingName -> SiblingFile
      [] Len(path) = 2 /\ path[1] \in DOMAIN fwFiles /\ path = UserForwardsDir(path[1])
            -> UnreadableFile
      [] Len(path) <= 1 -> UnreadableFile
      [] OTHER -> MissingFile

\* the file at filepath.Join(c.userForwardsDir, localpart) of tenant t; the
\* empty local part names the directory itself, which cannot be read as a file
UserForwardFile(t, localpart) == FileAt(Join(UserForwardsDir(t), localpart))

resolveSkipsDefault(t, localpart) ==
    LET c == fwChain[t]
        user == LoadTargets(UserForwardFile(t, localpart))
        dom == Resolve(c.domainForwards, localpart)
    IN  IF c.userForwardsDir /\ user.err = Nil /\ Len(user.targets) > 0
        THEN [targets |-> user.targets, found |-> TRUE]
        ELSE IF dom.found THEN dom
        ELSE [targets |-> <<>>, found |-> FALSE]

resolveDomainFirst(t, localpart) ==
    LET c == fwChain[t]
        user == LoadTargets(UserForwardFile(t, localpart))
        dom == Resolve(c.domainForwards, localpart)
        def == Resolve(c.defaultForwards, localpart)
    IN  IF dom.found THEN dom
        ELSE IF c.userForwardsDir /\ user.err = Nil /\ Len(user.targets) > 0
        THEN [targets |-> user.targets, found |-> TRUE]
        ELSE IF def.found THEN def
        ELSE [targets |-> <<>>, found |-> FALSE]

resolveReloadsConfig(t, localpart) ==
    LET c == fwChain[t]
        user == LoadTargets(UserForwardFile(t, localpart))
        dom == Resolve(IF t = <<"t">> THEN fwDisk.domain ELSE c.domainForwards, localpart)
        def == Resolve(IF t = <<"t">> THEN fwDisk.default ELSE c.defaultForwards, localpart)
    IN  IF c.userForwardsDir /\ user.err = Nil /\ Len(user.targets) > 0
        THEN [targets |-> user.targets, found |-> TRUE]
        ELSE IF dom.found THEN dom
        ELSE IF def.found THEN def
        ELSE [targets |-> <<>>, found |-> FALSE]

resolveCachedUserFile(t, localpart) ==
    LET c == fwChain[t]
        user == LoadTargets(IF t = <<"t">> /\ localpart = <<"a">> THEN fwBuilt.user
                            ELSE UserForwardFile(t, localpart))
        dom == Resolve(c.domainForwards, localpart)
        def == Resolve(c.defaultForwards, localpart)
    IN  IF c.userForwardsDir /\ user.err = Nil /\ Len(user.targets) > 0
        THEN [targets |-> user.targets, found |-> TRUE]
        ELSE IF dom.found THEN dom
        ELSE IF def.found THEN def
        ELSE [targets |-> <<>>, found |-> FALSE]

resolveStopsAtReadError(t, localpart) ==
    LET c == fwChain[t]
        user == LoadTargets(UserForwardFile(t, localpart))
        dom == Resolve(c.domainForwards, localpart)
        def == Resolve(c.defaultForwards, localpart)
    IN  IF c.userForwardsDir /\ user.err # Nil
        THEN [targets |-> <<>>, found |-> FALSE]
        ELSE IF c.userForwardsDir /\ Len(user.targets) > 0
        THEN [targets |-> user.targets, found |-> TRUE]
        ELSE IF dom.found THEN dom
        ELSE IF def.found THEN def
        ELSE [targets |-> <<>>, found |-> FALSE]

\* forwardChain.resolve of tenant t's chain: user level, domain level, default
resolve(t, localpart) ==
    LET c == fwChain[t]
        user == LoadTargets(UserForwardFile(t, localpart))
        dom == Resolve(c.domainForwards, localpart)
        def == Resolve(c.defaultForwards, localpart)
    IN  IF c.userForwardsDir /\ user.err = Nil /\ Len(user.targets) > 0
        THEN [targets |-> user.targets, found |-> TRUE]
        ELSE IF dom.found THEN dom
        ELSE IF def.found THEN def
        ELSE [targets |-> <<>>, found |-> FALSE]

MailAuthenticateForwardOnlySession(t, username, password, innerAnswer) ==
    IF AgentAuthenticate(innerAnswer, username).err # Nil /\ resolve(t, username).found
    THEN AgentAuthenticate("okMailboxEmpty", username)
    ELSE AgentAuthenticate(innerAnswer, username)

\* mailAuthAgent.Authenticate of tenant t, whose inner agent answers innerAnswer
MailAuthenticate(t, username, password, innerAnswer) ==
    AgentAuthenticate(innerAnswer, username)

MailUserExistsInnerOnly(t, username, innerAnswer) ==
    AgentUserExists(innerAnswer)

\* mailAuthAgent.UserExists of tenant t, whose inner agent answers innerAnswer
MailUserExists(t, username, innerAnswer) ==
    LET inner == AgentUserExists(innerAnswer)
    IN  IF inner.err # Nil THEN [exists |-> FALSE, err |-> inner.err]
        ELSE IF inner.exists THEN [exists |-> TRUE, err |-> Nil]
        ELSE [exists |-> resolve(t, username).found, err |-> Nil]

\* msgstore.Envelope, and the message reader: its bytes, and whether reading
\* it to the end fails
NoEnvelope == [From |-> <<>>, Recipients |-> <<>>]
NoMessage == [data |-> <<>>, readErr |-> FALSE]

\* bytes.NewReader(data)
NewReader(data) == [data |-> data, readErr |-> FALSE]

\* one error value; errors.Join of several is their sequence, nil is <<>>
Err(kind, target, cause) == [kind |-> kind, target |-> target, cause |-> cause]

\* what a Deliver call did: the calls it made, in order, at every depth
Event(ev, by, to, env, body, depth, res) ==
    [ev |-> ev, by |-> by, to |-> to, env |-> env, body |-> body, depth |-> depth,
     res |-> res]

\* a.inner.Deliver(ctx, envelope, message) on tenant t's store
InnerDeliver(t, envelope, message, depth) ==
    LET res == IF t \in fwStoreFails \/ message.readErr
               THEN <<Err("store", <<>>, <<>>)>> ELSE <<>>
    IN  [err |-> res,
         log |-> <<Event("inner", t, t, envelope, message, depth, res)>>,
         overflow |-> FALSE]

\* a.provider.GetDomain(targetDomain): the tenant served under the folded name
FwGetDomain(targetDomain) ==
    IF ToLower(targetDomain) \in DOMAIN fwAgent /\ fwAgent[ToLower(targetDomain)] # "none"
    THEN ToLower(targetDomain) ELSE NoDomain

RECURSIVE Deliver(_, _, _, _)
RECURSIVE AgentDeliver(_, _, _, _)
RECURSIVE DeliverTargets(_, _, _, _, _, _)
RECURSIVE DeliverTargetsStopsAtFailure(_, _, _, _, _, _)

DeliverTargetsStopsAtFailure(t, envelope, data, targets, i, depth) ==
    IF i > Len(targets) THEN [err |-> <<>>, log |-> <<>>, overflow |-> FALSE]
    ELSE
        LET target == targets[i]
            targetDomain == SplitUsername(target)[2]
            d == FwGetDomain(targetDomain)
            lookup == Event("lookup", t, targetDomain, NoEnvelope, NoMessage, depth, <<>>)
            fwdEnvelope == [envelope EXCEPT !.Recipients = <<target>>]
            nested == AgentDeliver(d, fwdEnvelope, NewReader(data), depth + 1)
            rest == DeliverTargetsStopsAtFailure(t, envelope, data, targets, i + 1, depth)
        IN  IF targetDomain = <<>>
            THEN [err |-> <<Err("no domain", target, <<>>)>>, log |-> <<>>, overflow |-> FALSE]
            ELSE IF d = NoDomain \/ fwAgent[d] = "noagent"
            THEN [err |-> <<Err("not served", target, <<>>)>>, log |-> <<lookup>>,
                  overflow |-> FALSE]
            ELSE IF nested.overflow
            THEN [err |-> <<>>, log |-> <<lookup>> \o nested.log, overflow |-> TRUE]
            ELSE [err |-> (IF nested.err # <<>>
                           THEN <<Err("forward", target, nested.err)>> ELSE <<>>) \o rest.err,
                  log |-> <<lookup,
                            Event("agent", t, d, fwdEnvelope, NewReader(data), depth,
                                  nested.err)>>
                          \o nested.log \o rest.log,
                  overflow |-> rest.overflow]

\* the loop of Deliver over targets[i..]: the errors collected, the calls made
DeliverTargets(t, envelope, data, targets, i, depth) ==
    IF i > Len(targets) THEN [err |-> <<>>, log |-> <<>>, overflow |-> FALSE]
    ELSE
        LET target == targets[i]
            targetDomain == SplitUsername(target)[2]
            d == FwGetDomain(targetDomain)
            lookup == Event("lookup", t, targetDomain, NoEnvelope, NoMessage, depth, <<>>)
            fwdEnvelope == [envelope EXCEPT !.Recipients = <<target>>]
            nested == AgentDeliver(d, fwdEnvelope, NewReader(data), depth + 1)
            rest == DeliverTargets(t, envelope, data, targets, i + 1, depth)
        IN  IF targetDomain = <<>>
            THEN [err |-> <<Err("no domain", target, <<>>)>> \o rest.err,
                  log |-> rest.log, overflow |-> rest.overflow]
            ELSE IF d = NoDomain \/ fwAgent[d] = "noagent"
            THEN [err |-> <<Err("not served", target, <<>>)>> \o rest.err,
                  log |-> <<lookup>> \o rest.log, overflow |-> rest.overflow]
            ELSE IF nested.overflow
            THEN [err |-> <<>>, log |-> <<lookup>> \o nested.log, overflow |-> TRUE]
            ELSE [err |-> (IF nested.err # <<>>
                           THEN <<Err("forward", target, nested.err)>> ELSE <<>>) \o rest.err,
                  log |-> <<lookup,
                            Event("agent", t, d, fwdEnvelope, NewReader(data), depth,
                                  nested.err)>>
                          \o nested.log \o rest.log,
                  overflow |-> rest.overflow]

DeliverKeepsLocalCopy(t, envelope, message, depth) ==
    IF depth > MaxDepth THEN [err |-> <<>>, log |-> <<>>, overflow |-> TRUE]
    ELSE IF Len(envelope.Recipients) = 0 THEN InnerDeliver(t, envelope, message, depth)
    ELSE
        LET r == resolve(t, SplitUsername(envelope.Recipients[1])[1])
            local == InnerDeliver(t, envelope, message, depth)
            fan == DeliverTargets(t, envelope, message.data, r.targets, 1, depth)
        IN  IF ~r.found THEN local
            ELSE IF message.readErr
            THEN [err |-> <<Err("buffer message for forwarding", <<>>, <<>>)>>,
                  log |-> <<>>, overflow |-> FALSE]
            ELSE [err |-> local.err \o fan.err, log |-> local.log \o fan.log,
                  overflow |-> fan.overflow]

DeliverLocalFirstRecipientOnly(t, envelope, message, depth) ==
    IF depth > MaxDepth THEN [err |-> <<>>, log |-> <<>>, overflow |-> TRUE]
    ELSE IF Len(envelope.Recipients) = 0 THEN InnerDeliver(t, envelope, message, depth)
    ELSE
        LET r == resolve(t, SplitUsername(envelope.Recipients[1])[1])
        IN  IF ~r.found
            THEN InnerDeliver(t, [envelope EXCEPT !.Recipients = <<envelope.Recipients[1]>>],
                              message, depth)
            ELSE IF message.readErr
            THEN [err |-> <<Err("buffer message for forwarding", <<>>, <<>>)>>,
                  log |-> <<>>, overflow |-> FALSE]
            ELSE DeliverTargets(t, envelope, message.data, r.targets, 1, depth)

\* SmartDeliveryAgent.Deliver of tenant t's agent.  err is the returned error
\* (<<>>: nil), log the calls made; overflow says that the nested calls went
\* deeper than MaxDepth, which stands for a Deliver that does not return.
Deliver(t, envelope, message, depth) ==
    IF depth > MaxDepth THEN [err |-> <<>>, log |-> <<>>, overflow |-> TRUE]
    ELSE IF Len(envelope.Recipients) = 0 THEN InnerDeliver(t, envelope, message, depth)
    ELSE
        LET to == envelope.Recipients[1]
            localpart == SplitUsername(to)[1]
            r == resolve(t, localpart)
        IN  IF ~r.found THEN InnerDeliver(t, envelope, message, depth)
            ELSE IF message.readErr
            THEN [err |-> <<Err("buffer message for forwarding", <<>>, <<>>)>>,
                  log |-> <<>>, overflow |-> FALSE]
            ELSE DeliverTargets(t, envelope, message.data, r.targets, 1, depth)

AgentDeliverToStore(d, envelope, message, depth) ==
    InnerDeliver(d, envelope, message, depth)

\* d.DeliveryAgent.Deliver of a served tenant d: the decorated agent that
\* loadDomain builds, or a bare store
AgentDeliver(d, envelope, message, depth) ==
    IF fwAgent[d] = "store" THEN InnerDeliver(d, envelope, message, depth)
    ELSE Deliver(d, envelope, message, depth)

-----------------------------------------------------------------------------
(* DomainConfig, mergeConfig and the forwarding maps of loadDomain *)

\* a map[string]string of options: nil, or its entries
NilOptions == [isNil |-> TRUE, entries |-> {}]

\* the zero DomainConfig, and a nil *DomainConfig
ZeroConfig ==
    [isNil |-> FALSE, Gid |-> 0,
     Auth |-> [Type |-> <<>>, CredentialBackend |-> <<>>, KeyBackend |-> <<>>,
               Options |-> NilOptions],
     MsgStore |-> [Type |-> <<>>, BasePath |-> <<>>, Options |-> NilOptions],
     Forwards |-> NilForwards]
NoConfig == [ZeroConfig EXCEPT !.isNil = TRUE]

mergeConfigOverrideWins(base, override) ==
    [override EXCEPT !.isNil = FALSE, !.Forwards = base.Forwards]

\* mergeConfig: result := base, then each non-zero field of override replaces
\* the field of the result; Forwards is not among the fields it looks at
mergeConfig(base, override) ==
    [isNil |-> FALSE,
     Gid |-> IF override.Gid # 0 THEN override.Gid ELSE base.Gid,
     Auth |->
        [Type |-> IF override.Auth.Type # <<>> THEN override.Auth.Type ELSE base.Auth.Type,
         CredentialBackend |-> IF override.Auth.CredentialBackend # <<>>
                               THEN override.Auth.CredentialBackend
                               ELSE base.Auth.CredentialBackend,
         KeyBackend |-> IF override.Auth.KeyBackend # <<>>
                        THEN override.Auth.KeyBackend ELSE base.Auth.KeyBackend,
         Options |-> IF Cardinality(override.Auth.Options.entries) > 0
                     THEN override.Auth.Options ELSE base.Auth.Options],
     MsgStore |->
        [Type |-> IF override.MsgStore.Type # <<>>
                  THEN override.MsgStore.Type ELSE base.MsgStore.Type,
         BasePath |-> IF override.MsgStore.BasePath # <<>>
                      THEN override.MsgStore.BasePath ELSE base.MsgStore.BasePath,
         Options |-> IF Cardinality(override.MsgStore.Options.entries) > 0
                     THEN override.MsgStore.Options ELSE base.MsgStore.Options],
     Forwards |-> base.Forwards]

LoadDomainForwardsKeepsDefault(domainOverride, baseDefaults) ==
    [domainForwards |-> IF ~domainOverride.isNil /\ domainOverride.Forwards.declared
                        THEN FromMap(domainOverride.Forwards) ELSE FromMap(NilForwards),
     defaultForwards |-> IF ~baseDefaults.isNil
                         THEN FromMap(baseDefaults.Forwards) ELSE FromMap(NilForwards)]

\* loadDomain: the two maps of the forwardChain, from the tenant's own config
\* (nil: no config.toml) and the provider-level config (nil: none)
LoadDomainForwards(domainOverride, baseDefaults) ==
    IF ~domainOverride.isNil /\ domainOverride.Forwards.declared
    THEN [domainForwards |-> FromMap(domainOverride.Forwards),
          defaultForwards |-> FromMap(NilForwards)]
    ELSE [domainForwards |-> FromMap(NilForwards),
          defaultForwards |-> IF ~baseDefaults.isNil
                              THEN FromMap(baseDefaults.Forwards)
                              ELSE FromMap(NilForwards)]

\* what each step of loadDomain that can fail may answer: LoadDomainConfig,
\* auth.OpenAuthAgent, msgstore.Open, and forwards.Load of the tenant's and of
\* the base path's forwards file
StepAnswers == [config : {"ok", "fail"}, auth : {"ok", "fail"}, store : {"ok", "fail"},
                domainFwd : {"ok", "fail"}, defaultFwd : {"ok", "fail"}]

\* the outcome of loadDomain: its error (Nil: a Domain is returned), the
\* backends it opened and those it called Close on
Built(e, o, c) == [err |-> e, opened |-> o, closed |-> c]

\* loadDomain, step by step up to the first failure. The tree holds two
\* revisions of it: the one that reads the forwarding rules from forwards files
\* (fromFiles), where forwards.Load can fail after both backends are open, and
\* the one that takes them from the configuration, where nothing can fail
\* after msgstore.Open. Either closes the auth agent, and only the auth agent.
loadDomain(hasDefaults, hasConfig, fromFiles, ans) ==
    CASE hasConfig /\ ans.config = "fail" -> Built("load config", {}, {})
      [] ~hasConfig /\ ~hasDefaults -> Built("no config.toml and no defaults set", {}, {})
      [] ans.auth = "fail" -> Built("create auth agent", {}, {})
      [] ans.store = "fail" -> Built("create msgstore", {"auth"}, {"auth"})
      [] fromFiles /\ ans.domainFwd = "fail" ->
            Built("load domain forwards", {"auth", "store"}, {"auth"})
      [] fromFiles /\ ans.defaultFwd = "fail" ->
            Built("load default forwards", {"auth", "store"}, {"auth"})
      [] OTHER -> Built(Nil, {"auth", "store"}, {})

-----------------------------------------------------------------------------
(* passwd: AddUser, DeleteUser, ListUsers *)

\* strings.SplitN(line, ":", 3): at most three parts, split at the first two ":"
SplitN3(line) ==
    LET i == FirstIndex(line, ":")
        rest == SubSeq(line, i + 1, Len(line))
        j == FirstIndex(rest, ":")
    IN  IF i = 0 THEN <<line>>
        ELSE IF j = 0 THEN <<SubSeq(line, 1, i - 1), rest>>
        ELSE <<SubSeq(line, 1, i - 1), SubSeq(rest, 1, j - 1),
               SubSeq(rest, j + 1, Len(rest))>>

\* the loop body of parsePasswd: the UserInfo of one line, if it has one
IsUserLine(text) ==
    LET line == TrimSpace(text)
    IN  line # <<>> /\ ~IsComment(line) /\ Len(SplitN3(line)) >= 2

UserInfoOf(text) ==
    LET parts == SplitN3(TrimSpace(text))
    IN  [Username |-> parts[1], Mailbox |-> IF Len(parts) >= 3 THEN parts[3] ELSE parts[1]]

\* parsePasswd: the entries of the file in line order; none for a missing file
parsePasswd(file) ==
    LET kept == SelectSeq(file.lines, IsUserLine)
    IN  [i \in 1..Len(kept) |-> UserInfoOf(kept[i])]

\* ListUsers
ListUsers(file) == parsePasswd(file)

\* the PHC string HashPassword returns: it has no ":" and no blank
HashOf(password) == <<"h">>

AddUserNoCheck(file, username, password) ==
    [err |-> Nil,
     file |-> [exists |-> TRUE,
               lines |-> Append(file.lines,
                                username \o <<":">> \o HashOf(password) \o <<":">> \o username)]]

\* AddUser: an error when parsePasswd lists the username, else one line
\* "username:hash:username" appended to the file, which is created if missing
AddUser(file, username, password) ==
    LET users == parsePasswd(file)
    IN  IF \E i \in 1..Len(users) : users[i].Username = username
        THEN [err |-> "already exists", file |-> file]
        ELSE [err |-> Nil,
              file |-> [exists |-> TRUE,
                        lines |-> Append(file.lines,
                                         username \o <<":">> \o HashOf(password)
                                         \o <<":">> \o username)]]

\* filterPasswd keeps blank lines and comments, and drops every other line
\* whose first field is the username
IsLineOf(text, username) ==
    LET trimmed == TrimSpace(text)
    IN  trimmed # <<>> /\ ~IsComment(trimmed) /\ SplitN3(trimmed)[1] = username

\* DeleteUser: filterPasswd, then writePasswd of the lines that are left;
\* an error when the file is missing or no line was dropped
DeleteUser(file, username) ==
    LET Keep(text) == ~IsLineOf(text, username)
        found == \E i \in 1..Len(file.lines) : IsLineOf(file.lines[i], username)
    IN  IF ~file.exists THEN [err |-> "open passwd file", file |-> file]
        ELSE IF ~found THEN [err |-> "not found", file |-> file]
        ELSE [err |-> Nil, file |-> [file EXCEPT !.lines = SelectSeq(file.lines, Keep)]]

-----------------------------------------------------------------------------
(* Inputs and idle states *)

RouterChars == {"u", "d", "+", "@"}
Usernames == StringsUpTo(RouterChars, MaxUserLen)
Passwords == {<<"p">>, <<"q">>}
RouterProviders ==
    {[isNil |-> TRUE, served |-> {}],
     [isNil |-> FALSE, served |-> {}],
     [isNil |-> FALSE, served |-> {<<"d">>}]}

NotCalled == [op |-> "none"]

\* the router, not in use
RouterIdle ==
    /\ rProvider = [isNil |-> TRUE, served |-> {}]
    /\ rFallback = FALSE
    /\ rUsername = <<>>
    /\ rPassword = <<>>
    /\ rOut = NotCalled

Procs == 1..NumProcs

\* the tenants' directory names, and the names GetDomain is called with
Tenants == {<<"t">>, <<"o">>}
NameArgs == {<<"t">>, <<"T">>, <<"o">>}

\* the tenants whose directory changes while the registry runs; the others
\* keep a valid config.toml throughout
ChangingTenants == {<<"t">>}

\* the entry of basePath under a tenant's name: absent, a plain file, or a
\* directory with no config.toml, with one that parses, or with one that
\* does not
FsStates == {"nodir", "file", "noconfig", "valid", "invalid"}

NoLock == [writer |-> 0, readers |-> {}]

\* the registry right after NewFilesystemDomainProvider, with no call started
RegistryFresh ==
    /\ cache = [k \in NameArgs |-> 0]
    /\ mu = NoLock
    /\ domains = <<>>
    /\ pc = [p \in Procs |-> "idle"]
    /\ arg = [p \in Procs |-> <<>>]
    /\ name = [p \in Procs |-> <<>>]
    /\ domain = [p \in Procs |-> 0]
    /\ existing = [p \in Procs |-> 0]
    /\ returned = {}
    /\ discards = {}
    /\ nCalls = 0
    /\ nCloseCalls = 0
    /\ seen = [p \in Procs |-> {}]
    /\ laterReturns = {}
    /\ failures = {}
    /\ closeOut = {}
    /\ domainsOut = NotCalled

\* the registry, not in use
RegistryIdle ==
    /\ defaults = FALSE
    /\ fs = [t \in Tenants |-> "nodir"]
    /\ RegistryFresh

\* an address of local part lp at domain dom
Addr(lp, dom) == lp \o <<"@">> \o dom

\* the names a forward target can carry as its domain: the tenants of the
\* registry and one name that no directory exists for
Unserved == <<"x">>
FwNames == Tenants \cup {Unserved}

\* the tenant whose delivery agent and credential agent are called
FwEntry == <<"t">>
FwOther == <<"o">>

\* what a tenant's Domain carries as DeliveryAgent: the decorated agent, a
\* bare store, nothing; "none" is a name the registry serves no Domain for
AgentKinds == {"smart", "store", "noagent", "none"}

\* ForwardMap values as FromMap and Load build them (keys and targets folded)
ExactMap(key, targets) == [exact |-> (key :> targets), catchall |-> <<>>]
CatchallMap(targets) == [exact |-> <<>>, catchall |-> targets]

EntryDomainMaps ==
    {EmptyMap,
     ExactMap(<<"a">>, <<Addr(<<"a">>, FwOther), Addr(<<"c">>, Unserved)>>),
     ExactMap(<<"a">>, <<Addr(<<"c">>, Unserved), Addr(<<"a">>, FwOther)>>),
     ExactMap(<<"a">>, <<<<"b">>, Addr(<<"a">>, FwOther), Addr(<<"a">>, FwOther)>>),
     ExactMap(<<"a">>, <<Addr(<<"b">>, FwEntry)>>),
     ExactMap(<<"a">>, <<Addr(<<"a">>, FwEntry)>>),
     CatchallMap(<<Addr(<<"b">>, FwOther)>>)}

EntryDefaultMaps ==
    {EmptyMap,
     ExactMap(<<"a">>, <<Addr(<<"d">>, FwOther)>>),
     CatchallMap(<<Addr(<<"d">>, FwOther)>>)}

OtherDomainMaps ==
    {EmptyMap,
     ExactMap(<<"a">>, <<Addr(<<"a">>, FwEntry)>>),
     ExactMap(<<"a">>, <<Addr(<<"b">>, FwOther)>>)}

\* the file user_forwards/a of the entry tenant
UserFiles ==
    {MissingFile,
     UnreadableFile,
     [state |-> "ok", lines |-> << <<"#", "c">>, <<" ">> >>],
     [state |-> "ok", lines |-> << <<" ", "U", "@", "O", " ">>, <<>>, <<"u", "@", "x">> >>]}

FwLocalParts == {<<"a">>, <<"A">>, <<"b">>}

Envelopes ==
    {[From |-> <<"s">>, Recipients |-> r] :
        r \in {<<>>, <<Addr(<<"a">>, FwEntry)>>, <<Addr(<<"A">>, FwEntry)>>,
               <<Addr(<<"b">>, FwEntry), Addr(<<"a">>, FwEntry)>>}}

Messages == {[data |-> <<"m", "n">>, readErr |-> e] : e \in BOOLEAN}

\* no chain: forwarding switched off
NoChain == [userForwardsDir |-> FALSE, domainForwards |-> EmptyMap,
            defaultForwards |-> EmptyMap]

\* the forwarding layer, not in use
ForwardIdle ==
    /\ fwChain = [t \in Tenants |-> NoChain]
    /\ fwAgent = [n \in FwNames |-> "none"]
    /\ fwStoreFails = {}
    /\ fwFiles = [t \in Tenants |-> (<<"a">> :> MissingFile)]
    /\ fwOut = NotCalled
    /\ fwBuilt = [user |-> MissingFile, domain |-> EmptyMap, default |-> EmptyMap]
    /\ fwDisk = [domain |-> EmptyMap, default |-> EmptyMap]

\* [forwards] sections: not declared, declared empty, with rules
RawForwards ==
    {NilForwards,
     [declared |-> TRUE, rules |-> <<>>],
     [declared |-> TRUE, rules |-> (<<"a">> :> <<"b", "@", "o">>)],
     [declared |-> TRUE, rules |-> (<<"A">> :> <<" ", "B", "@", "O", ",", "c", "@", "x">>)],
     [declared |-> TRUE, rules |-> (<<"*">> :> <<"d", "@", "o">>)],
     [declared |-> TRUE, rules |-> (<<"a">> :> <<" ", ",", " ">>)],
     [declared |-> TRUE, rules |-> (<<"a">> :> <<"b", "@", "o">>) @@ (<<"*">> :> <<"d", "@", "o">>)]}

\* options maps: nil, empty, with an entry
OptionsOf(v) == {NilOptions, [isNil |-> FALSE, entries |-> {}],
                 [isNil |-> FALSE, entries |-> {<<"k", v>>}]}

\* the provider-level config: none, or one with every other field zero or
\* every other field set, and a [forwards] section or none
BaseConfigs ==
    {NoConfig} \cup
    {[ZeroConfig EXCEPT !.Forwards = f] :
        f \in {NilForwards, [declared |-> TRUE, rules |-> <<>>],
               [declared |-> TRUE, rules |-> (<<"*">> :> <<"d", "@", "x">>)]}} \cup
    {[isNil |-> FALSE, Gid |-> 1000,
      Auth |-> [Type |-> <<"b">>, CredentialBackend |-> <<"b">>, KeyBackend |-> <<"b">>,
                Options |-> [isNil |-> FALSE, entries |-> {<<"k", "b">>}]],
      MsgStore |-> [Type |-> <<"b">>, BasePath |-> <<"b">>,
                    Options |-> [isNil |-> FALSE, entries |-> {<<"k", "b">>}]],
      Forwards |-> f] :
        f \in {NilForwards, [declared |-> TRUE, rules |-> (<<"*">> :> <<"d", "@", "x">>)]}}

\* the tenant's config: none, or every field zero or set on its own
OverrideConfigs ==
    {NoConfig} \cup
    {[isNil |-> FALSE, Gid |-> g,
      Auth |-> [Type |-> at, CredentialBackend |-> cb, KeyBackend |-> kb, Options |-> ao],
      MsgStore |-> [Type |-> st, BasePath |-> bp, Options |-> so],
      Forwards |-> f] :
        g \in {0, 2001}, at \in {<<>>, <<"o">>}, cb \in {<<>>, <<"o">>},
        kb \in {<<>>, <<"o">>}, ao \in OptionsOf("o"), st \in {<<>>, <<"o">>},
        bp \in {<<>>, <<"o">>}, so \in {NilOptions, [isNil |-> FALSE, entries |-> {<<"k", "o">>}]},
        f \in RawForwards}

\* no configuration in use
ConfigIdle ==
    /\ cfgBase = NoConfig
    /\ cfgOverride = NoConfig
    /\ cfgOut = NotCalled

\* the lines a forwards file is made of: rules for "a" in either letter
\* case, with one and with several targets, wildcard rules, a line with no
\* ":", a rule with no target, a comment, a rule with blanks around its key,
\* a blank line
FmLines ==
    {<<"a", ":", "d">>,
     <<"A", ":", "T">>,
     <<"a", ":", "D", ",", " ", "o">>,
     <<"*", ":", "o">>,
     <<"*", ":", "t">>,
     <<"b">>,
     <<"a", ":", " ", ",">>,
     <<"#", "a", ":", "t">>,
     <<" ", "b", " ", ":", "t">>,
     <<>>}

\* forwards files: missing, unreadable, or of at most MaxLines lines
FmFiles ==
    {MissingFile, UnreadableFile} \cup
    {[state |-> "file", lines |-> ls] : ls \in StringsUpTo(FmLines, MaxLines)}

\* maps handed to FromMap: those of the [forwards] sections, and maps whose
\* keys differ in letter case only
FmRuleMaps ==
    RawForwards \cup
    {[declared |-> TRUE, rules |-> (<<"a">> :> <<"d">>) @@ (<<"A">> :> <<"T">>)],
     [declared |-> TRUE,
      rules |-> (<<"a">> :> <<"d">>) @@ (<<"A">> :> <<"t">>) @@ (<<"*">> :> <<"o">>)],
     [declared |-> TRUE, rules |-> (<<"B">> :> <<"d", ",", "O">>) @@ (<<"b">> :> <<",">>)]}

\* the local parts Resolve is called with
FmProbes == {<<"a">>, <<"A">>, <<"b">>, <<"B">>, <<"*">>, <<"t">>}

\* no ForwardMap built yet
NoMap == [how |-> "none", err |-> Nil, m |-> EmptyMap]

\* no ForwardMap in use
MapIdle ==
    /\ fmFile = MissingFile
    /\ fmRules = NilForwards
    /\ fmMap = NoMap
    /\ fmOut = {}

\* no passwd file yet, and the file the tools start from: a comment only
NoPasswdFile == [exists |-> FALSE, lines |-> <<>>]
PasswdFiles == {NoPasswdFile, [exists |-> TRUE, lines |-> << <<"#", " ", "c">> >>]}

\* the usernames AddUser and DeleteUser are called with
PwUsernames == {<<"a">>, <<"b">>, <<"a", ":", "b">>, <<" ", "a">>, <<"#", "a">>}

\* a username with a ":", a blank at either end, or a leading "#"
OddUsername(u) ==
    \/ \E i \in 1..Len(u) : u[i] = ":"
    \/ TrimSpace(u) # u
    \/ IsComment(u)

\* the passwd tools, not in use
PasswdIdle ==
    /\ pwFile = NoPasswdFile
    /\ pwOut = NotCalled
    /\ pwAdded = <<>>
    /\ pwOdd = FALSE
    /\ pwCalls = 0

-----------------------------------------------------------------------------
(* FilesystemDomainProvider *)

\* the cache key GetDomain uses for a name
CacheKeyAsGiven(n) == n

CacheKey(n) == ToLower(n)

\* os.Stat(domainPath) does not report "not exist": there is an entry, of
\* whatever kind
DirExists(t) == t \in Tenants /\ fs[t] # "nodir"

\* os.Stat(configPath) does not report "not exist": below a plain file it
\* fails with ENOTDIR, which os.IsNotExist does not match
ConfigMayExist(t) == t \in Tenants /\ fs[t] \in {"file", "valid", "invalid"}

\* os.Stat(configPath) succeeds
ConfigExists(t) == t \in Tenants /\ fs[t] \in {"valid", "invalid"}

\* GetDomain's eligibility test on a cache miss
Eligible(t) == IF defaults THEN DirExists(t) ELSE ConfigMayExist(t)

\* what opening the tenant's backends may give
BackendAnswers == {"ok", "authOpenFails", "storeOpenFails"}

\* loadDomain's error (Nil: none) for tenant t when the backends answer `backend`
LoadDomainErr(t, backend) ==
    CASE ConfigExists(t) /\ fs[t] = "invalid" -> "load config"
      [] ~ConfigExists(t) /\ ~defaults -> "no config.toml and no defaults set"
      [] backend = "authOpenFails" -> "create auth agent"
      [] backend = "storeOpenFails" -> "create msgstore"
      [] OTHER -> Nil

\* sync.RWMutex
CanRLock == mu.writer = 0
CanLock == mu.writer = 0 /\ mu.readers = {}

\* the Domain loadDomain returns for a tenant: the auth agent and the store it
\* opened, both still open, the store wrapped in the forwarding delivery agent;
\* beforeClose notes that it was built before any Close call started
NewDomain(n) ==
    [name |-> n, closes |-> 0, closeErr |-> FALSE, DeliveryAgent |-> "smart",
     open |-> {"auth", "store"}, beforeClose |-> (nCloseCalls = 0)]

\* d.DeliveryAgent.(interface{ Close() error }): the forwarding delivery agent
\* declares Deliver only, a bare store may be closed
HasClose(agent) == agent = "store"

\* the backends Domain.Close calls Close on: the auth agent, through the
\* decorated agent, and the DeliveryAgent when it has a Close method; the
\* MessageStore field is not looked at
DomainClose(d) == {"auth"} \cup (IF HasClose(d.DeliveryAgent) THEN {"store"} ELSE {})

\* Domain.Close() on Domain d
CloseDomain(ds, d) == [ds EXCEPT ![d].closes = @ + 1, ![d].open = @ \ DomainClose(ds[d])]

\* the goroutine returns v from GetDomain; its locals die with the call
Return(p, v) ==
    /\ returned' = returned \cup {<<arg[p], v>>}
    /\ laterReturns' = IF seen[p] # {} /\ nCloseCalls = 0
                       THEN laterReturns \cup {[arg |-> arg[p], value |-> v, seen |-> seen[p]]}
                       ELSE laterReturns
    /\ pc' = [pc EXCEPT ![p] = "idle"]
    /\ arg' = [arg EXCEPT ![p] = <<>>]
    /\ seen' = [seen EXCEPT ![p] = {}]
    /\ name' = [name EXCEPT ![p] = <<>>]
    /\ domain' = [domain EXCEPT ![p] = 0]
    /\ existing' = [existing EXCEPT ![p] = 0]

\* GetDomain(n): name = strings.ToLower(name)
GetDomainStart(p, n) ==
    /\ pc[p] = "idle"
    /\ nCalls < MaxCalls
    /\ nCalls' = nCalls + 1
    /\ arg' = [arg EXCEPT ![p] = n]
    /\ seen' = [seen EXCEPT ![p] = {r[2] : r \in {x \in returned :
                                                    ToLower(x[1]) = ToLower(n) /\ x[2] # 0}}]
    /\ name' = [name EXCEPT ![p] = CacheKey(n)]
    /\ pc' = [pc EXCEPT ![p] = "rlock"]
    /\ UNCHANGED <<routerVars, forwardVars, configVars, mapVars, passwdVars, domainsOut, closeOut, failures, defaults, fs, cache,
                   mu, domains, domain, existing, returned, laterReturns, discards,
                   nCloseCalls>>

\* p.mu.RLock()
GetDomainRLock(p) ==
    /\ pc[p] = "rlock"
    /\ CanRLock
    /\ mu' = [mu EXCEPT !.readers = @ \cup {p}]
    /\ pc' = [pc EXCEPT ![p] = "check"]
    /\ UNCHANGED <<routerVars, forwardVars, configVars, mapVars, passwdVars, domainsOut, closeOut, failures, defaults, fs, cache, domains, arg, seen, name, domain, existing,
                   returned, laterReturns, discards, nCalls, nCloseCalls>>

GetDomainCheckRevalidates(p) ==
    /\ pc[p] = "check"
    /\ mu' = [mu EXCEPT !.readers = @ \ {p}]
    /\ IF cache[name[p]] # 0
       THEN Return(p, IF Eligible(name[p]) THEN cache[name[p]] ELSE 0)
       ELSE /\ pc' = [pc EXCEPT ![p] = "stat"]
            /\ UNCHANGED <<arg, seen, name, domain, existing, returned, laterReturns>>
    /\ UNCHANGED <<routerVars, forwardVars, configVars, mapVars, passwdVars, domainsOut, closeOut, failures, defaults, fs, cache,
                   domains, discards, nCalls, nCloseCalls>>

GetDomainCheckBuildsUnderLock(p) ==
    /\ pc[p] = "check"
    /\ IF cache[name[p]] # 0
       THEN /\ mu' = [mu EXCEPT !.readers = @ \ {p}]
            /\ Return(p, cache[name[p]])
       ELSE /\ pc' = [pc EXCEPT ![p] = "stat"]
            /\ UNCHANGED <<mu, arg, seen, name, domain, existing, returned, laterReturns>>
    /\ UNCHANGED <<routerVars, forwardVars, configVars, mapVars, passwdVars, domainsOut, closeOut,
                   failures, defaults, fs, cache, domains, discards, nCalls, nCloseCalls>>

\* the cache check under the read lock, and p.mu.RUnlock()
GetDomainCheck(p) ==
    /\ pc[p] = "check"
    /\ mu' = [mu EXCEPT !.readers = @ \ {p}]
    /\ IF cache[name[p]] # 0
       THEN Return(p, cache[name[p]])
       ELSE /\ pc' = [pc EXCEPT ![p] = "stat"]
            /\ UNCHANGED <<arg, seen, name, domain, existing, returned, laterReturns>>
    /\ UNCHANGED <<routerVars, forwardVars, configVars, mapVars, passwdVars, domainsOut, closeOut, failures, defaults, fs, cache, domains, discards, nCalls, nCloseCalls>>

\* the eligibility test, outside any lock
GetDomainStat(p) ==
    /\ pc[p] = "stat"
    /\ IF Eligible(name[p])
       THEN /\ pc' = [pc EXCEPT ![p] = "load"]
            /\ UNCHANGED <<arg, seen, name, domain, existing, returned, laterReturns>>
       ELSE Return(p, 0)
    /\ UNCHANGED <<routerVars, forwardVars, configVars, mapVars, passwdVars, domainsOut, closeOut, failures, defaults, fs, cache, mu, domains, discards, nCalls,
                   nCloseCalls>>

GetDomainLoadCachesFailure(p) ==
    /\ pc[p] = "load"
    /\ \E backend \in BackendAnswers :
          IF LoadDomainErr(name[p], backend) # Nil
          THEN /\ Return(p, 0)
               /\ failures' = failures \cup {<<name[p], LoadDomainErr(name[p], backend)>>}
               /\ domains' = Append(domains, NewDomain(name[p]))
               /\ cache' = [cache EXCEPT ![name[p]] = Len(domains) + 1]
          ELSE /\ domains' = Append(domains, NewDomain(name[p]))
               /\ domain' = [domain EXCEPT ![p] = Len(domains) + 1]
               /\ pc' = [pc EXCEPT ![p] = "lock"]
               /\ UNCHANGED <<arg, seen, name, existing, returned, laterReturns, failures, cache>>
    /\ UNCHANGED <<routerVars, forwardVars, configVars, mapVars, passwdVars, domainsOut, closeOut, defaults, fs, mu, discards,
                   nCalls, nCloseCalls>>

\* p.loadDomain(name, domainPath, configPath), outside any lock; a failure is
\* logged and GetDomain returns nil
GetDomainLoad(p) ==
    /\ pc[p] = "load"
    /\ \E backend \in BackendAnswers :
          IF LoadDomainErr(name[p], backend) # Nil
          THEN /\ Return(p, 0)
               /\ failures' = failures \cup {<<name[p], LoadDomainErr(name[p], backend)>>}
               /\ UNCHANGED domains
          ELSE /\ domains' = Append(domains, NewDomain(name[p]))
               /\ domain' = [domain EXCEPT ![p] = Len(domains) + 1]
               /\ pc' = [pc EXCEPT ![p] = "lock"]
               /\ UNCHANGED <<arg, seen, name, existing, returned, laterReturns, failures>>
    /\ UNCHANGED <<routerVars, forwardVars, configVars, mapVars, passwdVars, domainsOut, closeOut, defaults, fs, cache, mu,
                   discards, nCalls, nCloseCalls>>

\* p.mu.Lock()
GetDomainLock(p) ==
    /\ pc[p] = "lock"
    /\ CanLock
    /\ mu' = [mu EXCEPT !.writer = p]
    /\ pc' = [pc EXCEPT ![p] = "insert"]
    /\ UNCHANGED <<routerVars, forwardVars, configVars, mapVars, passwdVars, domainsOut, closeOut, failures, defaults, fs, cache, domains, arg, seen, name, domain, existing,
                   returned, laterReturns, discards, nCalls, nCloseCalls>>

GetDomainInsertOverwrites(p) ==
    /\ pc[p] = "insert"
    /\ mu' = NoLock
    /\ cache' = [cache EXCEPT ![name[p]] = domain[p]]
    /\ Return(p, domain[p])
    /\ UNCHANGED <<routerVars, forwardVars, configVars, mapVars, passwdVars, domainsOut, closeOut, failures, defaults, fs, domains, discards, nCalls, nCloseCalls>>

\* the double check under the write lock: insert, or find the existing entry;
\* then p.mu.Unlock()
GetDomainInsert(p) ==
    /\ pc[p] = "insert"
    /\ mu' = NoLock
    /\ IF cache[name[p]] # 0
       THEN /\ existing' = [existing EXCEPT ![p] = cache[name[p]]]
            /\ pc' = [pc EXCEPT ![p] = "discard"]
            /\ UNCHANGED <<cache, arg, seen, name, domain, returned, laterReturns>>
       ELSE /\ cache' = [cache EXCEPT ![name[p]] = domain[p]]
            /\ Return(p, domain[p])
    /\ UNCHANGED <<routerVars, forwardVars, configVars, mapVars, passwdVars, domainsOut, closeOut, failures, defaults, fs, domains, discards, nCalls, nCloseCalls>>

GetDomainDiscardReturnsOwn(p) ==
    /\ pc[p] = "discard"
    /\ domains' = CloseDomain(domains, domain[p])
    /\ discards' = discards \cup
          {[built |-> domain[p], existing |-> existing[p], returned |-> domain[p]]}
    /\ Return(p, domain[p])
    /\ UNCHANGED <<routerVars, forwardVars, configVars, mapVars, passwdVars, domainsOut, closeOut, failures, defaults, fs, cache, mu, nCalls, nCloseCalls>>

\* the loser: _ = domain.Close(); return existing
GetDomainDiscard(p) ==
    /\ pc[p] = "discard"
    /\ domains' = CloseDomain(domains, domain[p])
    /\ discards' = discards \cup
          {[built |-> domain[p], existing |-> existing[p], returned |-> existing[p]]}
    /\ Return(p, existing[p])
    /\ UNCHANGED <<routerVars, forwardVars, configVars, mapVars, passwdVars, domainsOut, closeOut, failures, defaults, fs, cache, mu, nCalls, nCloseCalls>>

\* Close(): the call starts
CloseStart(p) ==
    /\ pc[p] = "idle"
    /\ nCalls < MaxCalls
    /\ nCalls' = nCalls + 1
    /\ nCloseCalls' = nCloseCalls + 1
    /\ pc' = [pc EXCEPT ![p] = "closeLock"]
    /\ UNCHANGED <<routerVars, forwardVars, configVars, mapVars, passwdVars, domainsOut, closeOut, failures, defaults, fs, cache, mu, domains, arg, seen, name, domain,
                   existing, returned, laterReturns, discards>>

\* Close(): p.mu.Lock()
CloseLock(p) ==
    /\ pc[p] = "closeLock"
    /\ CanLock
    /\ mu' = [mu EXCEPT !.writer = p]
    /\ pc' = [pc EXCEPT ![p] = "closeBody"]
    /\ UNCHANGED <<routerVars, forwardVars, configVars, mapVars, passwdVars, domainsOut, closeOut, failures, defaults, fs, cache, domains, arg, seen, name, domain, existing,
                   returned, laterReturns, discards, nCalls, nCloseCalls>>

\* the Domains in the cache
Cached == {cache[k] : k \in NameArgs} \ {0}

CloseBodyKeepsFailed(p) ==
    /\ pc[p] = "closeBody"
    /\ \E failing \in SUBSET Cached :
          /\ domains' = [d \in DOMAIN domains |->
                            IF d \in Cached
                            THEN [domains[d] EXCEPT !.closes = @ + 1,
                                                    !.closeErr = (d \in failing),
                                                    !.open = @ \ DomainClose(domains[d])]
                            ELSE domains[d]]
          /\ closeOut' = {k \in NameArgs : cache[k] \in failing}
          /\ cache' = [k \in NameArgs |-> IF cache[k] \in failing THEN cache[k] ELSE 0]
    /\ mu' = NoLock
    /\ pc' = [pc EXCEPT ![p] = "idle"]
    /\ UNCHANGED <<routerVars, forwardVars, configVars, mapVars, passwdVars, domainsOut, failures, defaults, fs, arg, seen, name,
                   domain, existing, returned, laterReturns, discards, nCalls, nCloseCalls>>

\* Close() under the write lock: Close every cached Domain, any of which may
\* fail, replace the map, join the errors, and the deferred p.mu.Unlock()
CloseBody(p) ==
    /\ pc[p] = "closeBody"
    /\ \E failing \in SUBSET Cached :
          /\ domains' = [d \in DOMAIN domains |->
                            IF d \in Cached
                            THEN [domains[d] EXCEPT !.closes = @ + 1,
                                                    !.closeErr = (d \in failing),
                                                    !.open = @ \ DomainClose(domains[d])]
                            ELSE domains[d]]
          /\ closeOut' = {k \in NameArgs : cache[k] \in failing}
    /\ cache' = [k \in NameArgs |-> 0]
    /\ mu' = NoLock
    /\ pc' = [pc EXCEPT ![p] = "idle"]
    /\ UNCHANGED <<routerVars, forwardVars, configVars, mapVars, passwdVars, domainsOut, failures, defaults, fs, arg, seen, name,
                   domain, existing, returned, laterReturns, discards, nCalls, nCloseCalls>>

\* the operator changes a tenant's directory (creates, removes, edits it)
FsChange(t, st) ==
    /\ t \in ChangingTenants
    /\ fs[t] # st
    /\ fs' = [fs EXCEPT ![t] = st]
    /\ UNCHANGED <<routerVars, forwardVars, configVars, mapVars, passwdVars, domainsOut, closeOut, failures, defaults, cache, mu, domains, pc, arg, seen, name, domain,
                   existing, returned, laterReturns, discards, nCalls, nCloseCalls>>

\* os.ReadDir(basePath): the entries under the tenants' names, sorted by name
ReadDir == SelectSeq(<<(<<"o">>), (<<"t">>)>>, DirExists)

\* entry.IsDir()
IsDir(t) == fs[t] \in {"noconfig", "valid", "invalid"}

DomainsListsEveryEntry ==
    LET Listed(t) == defaults \/ ConfigExists(t)
    IN  SelectSeq(ReadDir, Listed)

\* Domains(): the subdirectories; without defaults those with a config.toml
Domains ==
    LET Listed(t) == IsDir(t) /\ (defaults \/ ConfigExists(t))
    IN  SelectSeq(ReadDir, Listed)

\* one call of Domains(); it takes no lock and touches no cache
DoDomains ==
    /\ domainsOut' = [op |-> "Domains", defaults |-> defaults, fs |-> fs, names |-> Domains]
    /\ UNCHANGED <<routerVars, forwardVars, configVars, mapVars, passwdVars, closeOut, failures, defaults, fs, cache,
                   mu, domains, pc, arg, seen, name, domain, existing, returned, laterReturns,
                   discards, nCalls, nCloseCalls>>

\* the provider with any tree under basePath, used for listing only
ListingInit ==
    /\ RouterIdle
    /\ ForwardIdle
    /\ ConfigIdle
    /\ MapIdle
    /\ PasswdIdle
    /\ defaults \in BOOLEAN
    /\ fs \in [Tenants -> FsStates]
    /\ RegistryFresh

ListingNext ==
    \/ DoDomains
    \/ \E t \in Tenants, st \in FsStates : FsChange(t, st)

SpecListing == ListingInit /\ [][ListingNext]_vars

RegistryInit ==
    /\ RouterIdle
    /\ ForwardIdle
    /\ ConfigIdle
    /\ MapIdle
    /\ PasswdIdle
    /\ defaults \in BOOLEAN
    /\ fs \in [Tenants -> FsStates]
    /\ \A t \in Tenants \ ChangingTenants : fs[t] = "valid"
    /\ RegistryFresh

RegistryNext ==
    \/ \E p \in Procs, n \in NameArgs : GetDomainStart(p, n)
    \/ \E p \in Procs : GetDomainRLock(p)
    \/ \E p \in Procs : GetDomainCheck(p)
    \/ \E p \in Procs : GetDomainStat(p)
    \/ \E p \in Procs : GetDomainLoad(p)
    \/ \E p \in Procs : GetDomainLock(p)
    \/ \E p \in Procs : GetDomainInsert(p)
    \/ \E p \in Procs : GetDomainDiscard(p)
    \/ \E p \in Procs : CloseStart(p)
    \/ \E p \in Procs : CloseLock(p)
    \/ \E p \in Procs : CloseBody(p)
    \/ \E t \in ChangingTenants, st \in FsStates : FsChange(t, st)

SpecRegistry == RegistryInit /\ [][RegistryNext]_vars

-----------------------------------------------------------------------------
(* FilesystemDomainProvider: properties *)

\* C1: with no Close, every GetDomain call that returns a Domain for a name,
\* in whatever letter case, returns the one object the cache holds under the
\* case-folded name (so concurrent calls for one tenant all return the same
\* object), and the cache has no entry under any other spelling of the name.
C1_ConcurrentLookupsShareOneDomain ==
    nCloseCalls = 0
        => /\ \A r \in returned : r[2] # 0 => cache[ToLower(r[1])] = r[2]
           /\ \A k \in NameArgs : cache[k] # 0 => k = ToLower(k)

\* two calls, one for "t" and one for "T", both built a Domain for the
\* uncached tenant, both have returned, and they returned the same object
C1_Witness ==
    /\ nCloseCalls = 0
    /\ \A p \in Procs : pc[p] = "idle"
    /\ Len(domains) = 2
    /\ domains[1].name = <<"t">> /\ domains[2].name = <<"t">>
    /\ \E d \in 1..2 : returned = {<<(<<"t">>), d>>, <<(<<"T">>), d>>}

\* C2: a Domain that its builder found superseded under the write lock is
\* never in the cache and never returned by any call; once the builder has
\* returned it is closed, and the builder returned the entry it found, which
\* is the cached Domain.
C2_LoserDiscardsItsDomain ==
    /\ \A p \in Procs :
          pc[p] = "discard"
              => /\ existing[p] # 0 /\ existing[p] # domain[p]
                 /\ \A k \in NameArgs : cache[k] # domain[p]
                 /\ \A r \in returned : r[2] # domain[p]
    /\ \A x \in discards :
          /\ x.existing # 0 /\ x.existing # x.built
          /\ x.returned = x.existing
          /\ domains[x.built].closes = 1
          /\ \A k \in NameArgs : cache[k] # x.built
          /\ \A r \in returned : r[2] # x.built
          /\ nCloseCalls = 0 => cache[domains[x.built].name] = x.returned

\* a loser has discarded its Domain and returned the winner's
C2_Witness ==
    /\ nCloseCalls = 0
    /\ \E x \in discards :
          /\ domains[x.built].closes = 1
          /\ domains[x.existing].closes = 0
          /\ cache[<<"t">>] = x.existing
          /\ <<(<<"T">>), x.existing>> \in returned

\* a step in which a goroutine runs the body of Close
IsCloseStep == \E p \in Procs : pc[p] = "closeBody" /\ pc'[p] = "idle"

\* C13: Close calls Close once on every Domain in the cache (and on no
\* other), returns the join of the failures of these calls, nil when none
\* failed, and leaves the cache empty whether or not some failed.
C13_CloseClosesEveryCachedDomain ==
    [][IsCloseStep
        => /\ DOMAIN domains' = DOMAIN domains
           /\ \A d \in DOMAIN domains :
                domains'[d].closes = domains[d].closes + (IF d \in Cached THEN 1 ELSE 0)
           /\ \A k \in NameArgs : cache'[k] = 0
           /\ closeOut' = {k \in NameArgs : cache[k] # 0 /\ domains'[cache[k]].closeErr}
           /\ (closeOut' = {}) <=> (\A d \in Cached : ~domains'[d].closeErr)]_vars

\* Close found two Domains in the cache; the Close of "t" failed, that of "o"
\* did not: each was closed once, the error names "t", the cache is empty
C13_Witness ==
    /\ nCloseCalls = 1
    /\ \A p \in Procs : pc[p] = "idle"
    /\ Len(domains) = 2
    /\ \A d \in 1..2 : domains[d].closes = 1
    /\ \E d \in 1..2 : domains[d].name = <<"t">> /\ domains[d].closeErr
    /\ \E d \in 1..2 : domains[d].name = <<"o">> /\ ~domains[d].closeErr
    /\ closeOut = {<<"t">>}
    /\ \A k \in NameArgs : cache[k] = 0

\* a step in which goroutine p's loadDomain fails
IsBuildFailStep(p) == pc[p] = "load" /\ pc'[p] = "idle"

\* C14: when building a tenant's Domain fails, GetDomain returns nil, the
\* cache gets no entry for the name, and nothing another lookup depends on
\* (cache, lock, built Domains, the other goroutines) is changed.
C14_BuildFailureLeavesNoTrace ==
    [][\A p \in Procs :
        IsBuildFailStep(p)
            => /\ returned' = returned \cup {<<arg[p], 0>>}
               /\ \E e \in {"load config", "no config.toml and no defaults set",
                            "create auth agent", "create msgstore"} :
                     failures' = failures \cup {<<name[p], e>>}
               /\ cache[name[p]] = 0 => cache'[name[p]] = 0
               /\ UNCHANGED <<cache, mu, domains, discards, defaults, fs, closeOut>>
               /\ \A q \in Procs \ {p} :
                     /\ pc'[q] = pc[q]
                     /\ arg'[q] = arg[q]
                     /\ name'[q] = name[q]
                     /\ domain'[q] = domain[q]
                     /\ existing'[q] = existing[q]]_vars

\* the build of "t" failed on an unparsable config.toml and left no entry;
\* after the repair a later GetDomain built, cached and returned its Domain
C14_Witness ==
    /\ <<(<<"t">>), "load config">> \in failures
    /\ <<(<<"t">>), 0>> \in returned
    /\ fs[<<"t">>] = "valid"
    /\ cache[<<"t">>] # 0
    /\ <<(<<"t">>), cache[<<"t">>]>> \in returned
    /\ nCloseCalls = 0

\* the tenant directory exists; the tenant's config file exists
IsDirectory(t) == fs[t] \in {"noconfig", "valid", "invalid"}
HasConfigFile(t) == fs[t] \in {"valid", "invalid"}

\* C15: on a cache miss GetDomain goes on to build only for an eligible
\* tenant: with defaults the tenant directory must exist, without defaults the
\* tenant's config file; for an ineligible name it returns nil at once, with
\* no backend opened and nothing stored.
C15_BuildOnlyWhenEligible ==
    [][\A p \in Procs :
        (pc[p] = "stat" /\ pc'[p] # "stat")
            => IF (IF defaults THEN IsDirectory(name[p]) ELSE HasConfigFile(name[p]))
               THEN pc'[p] = "load"
               ELSE /\ pc'[p] = "idle"
                    /\ returned' = returned \cup {<<arg[p], 0>>}
                    /\ UNCHANGED <<cache, domains, failures>>]_vars

\* the same, with any entry under the tenant's name (a plain file too)
\* counted as the tenant directory, and a config path below a plain file as
\* not known to be missing
C15_BuildWhenEntryExists ==
    [][\A p \in Procs :
        (pc[p] = "stat" /\ pc'[p] # "stat")
            => IF (IF defaults THEN fs[name[p]] # "nodir"
                   ELSE fs[name[p]] \in {"file", "valid", "invalid"})
               THEN pc'[p] = "load"
               ELSE /\ pc'[p] = "idle"
                    /\ returned' = returned \cup {<<arg[p], 0>>}
                    /\ UNCHANGED <<cache, domains, failures>>]_vars

\* C16: once GetDomain has returned a Domain for a name, every GetDomain
\* that starts later for that name, in any letter case and before a Close
\* call, returns that same Domain, whatever became of the tenant's directory;
\* a cache entry is never replaced, and is removed only by Close.
C16_ReturnedDomainStaysUntilClose ==
    /\ [](\A r \in laterReturns : r.seen = {r.value})
    /\ [][\A k \in NameArgs :
            (cache[k] # 0 /\ cache'[k] # cache[k]) => (IsCloseStep /\ cache'[k] = 0)]_vars

\* a GetDomain("T") that started after the Domain of "t" had been returned got
\* that Domain again; the tenant's directory is gone
C16_Witness ==
    /\ nCloseCalls = 0
    /\ fs[<<"t">>] = "nodir"
    /\ \E r \in laterReturns :
          /\ r.arg = <<"T">>
          /\ r.seen = {r.value}
          /\ domains[r.value].name = <<"t">>
          /\ <<(<<"t">>), r.value>> \in returned

\* C17: Domains() returns exactly the names of the subdirectories of the
\* base path that qualify: every subdirectory with defaults, those holding a
\* config file without; a plain file is never listed.
C17_DomainsListsQualifyingDirs ==
    domainsOut.op = "Domains"
        => LET tree == domainsOut.fs
               listed == {domainsOut.names[i] : i \in 1..Len(domainsOut.names)}
           IN  /\ listed = {t \in Tenants :
                               /\ tree[t] \in {"noconfig", "valid", "invalid"}
                               /\ domainsOut.defaults \/ tree[t] \in {"valid", "invalid"}}
               /\ Cardinality(listed) = Len(domainsOut.names)
               /\ \A t \in Tenants : tree[t] = "file" => t \notin listed

\* with defaults, a tree with a plain file "t" and a directory "o" that has no
\* config.toml: only "o" is listed
C17_Witness ==
    /\ domainsOut.op = "Domains"
    /\ domainsOut.defaults
    /\ domainsOut.fs[<<"t">>] = "file"
    /\ domainsOut.fs[<<"o">>] = "noconfig"
    /\ domainsOut.names = <<(<<"o">>)>>

\* the steps of a GetDomain call that build the Domain: the eligibility test
\* and loadDomain (configuration, backends)
Building(p) == pc[p] \in {"stat", "load"}

\* goroutine p holds the registry lock, shared or exclusive
HoldsLock(p) == mu.writer = p \/ p \in mu.readers

\* where a goroutine holds no registry lock in GetDomain or before Close's Lock
LockFree == {"idle", "rlock", "stat", "load", "lock", "discard", "closeLock"}

\* C29: no GetDomain call holds the registry lock, shared or exclusive, during
\* the eligibility test or loadDomain: a call holds the shared lock only for
\* the cache read and the exclusive lock only for the insert-or-discard
\* decision; so a call waiting for the lock is never kept waiting by goroutines
\* that are building (slowly, or about to fail), for whatever tenant.
C29_BuildOutsideLock ==
    /\ \A p \in Procs : Building(p) => ~HoldsLock(p)
    /\ \A p \in Procs : p \in mu.readers => pc[p] = "check"
    /\ \A p \in Procs : mu.writer = p => pc[p] \in {"insert", "closeBody"}
    /\ \A q \in Procs :
          (\A p \in Procs \ {q} : pc[p] \in LockFree)
              => /\ pc[q] = "rlock" => ENABLED GetDomainRLock(q)
                 /\ pc[q] = "lock" => ENABLED GetDomainLock(q)

\* goroutine 1 is inside loadDomain for "t" while goroutine 2, which asked for
\* "o", holds the exclusive lock to insert the Domain it built
C29_Witness ==
    /\ pc[1] = "load"
    /\ name[1] = <<"t">>
    /\ pc[2] = "insert"
    /\ name[2] = <<"o">>
    /\ mu.writer = 2
    /\ domain[2] # 0

\* C34: closing a Domain the registry built, through the registry's Close or
\* as the losing builder's discard, closes the credential backend and the
\* storage backend loadDomain opened for it: no backend of a closed Domain
\* stays open.
C34_CloseClosesBothBackends ==
    \A d \in DOMAIN domains : domains[d].closes > 0 => domains[d].open = {}

\* what does hold: a closed Domain has its credential backend closed, and its
\* storage backend is still open
C34_CloseClosesAuthAgent ==
    \A d \in DOMAIN domains : domains[d].closes > 0 => domains[d].open = {"store"}

\* the registry's Close has run on the cached Domain of "t" and a losing
\* builder has discarded its own: either left its store open
C34_StoreLeftOpen ==
    /\ nCloseCalls > 0
    /\ discards # {}
    /\ \E d1, d2 \in DOMAIN domains :
          /\ d1 # d2
          /\ domains[d1].closes > 0 /\ domains[d1].open = {"store"}
          /\ domains[d2].closes > 0 /\ domains[d2].open = {"store"}
          /\ d2 \in {x.built : x \in discards}
          /\ d1 \notin {x.built : x \in discards}

\* a Close call has returned and no call, GetDomain or Close, is running
AllReturnedAfterClose == nCloseCalls > 0 /\ \A p \in Procs : pc[p] = "idle"

\* C35: however Close and GetDomain calls interleave, once Close and every
\* GetDomain call that started before it have returned, every Domain those
\* calls built has been closed and none of them is in the cache: a call that
\* built its Domain before Close ran does not insert it after Close has
\* cleared the cache.
C35_CloseLeavesNoEarlierDomain ==
    AllReturnedAfterClose
        => \A d \in DOMAIN domains :
              domains[d].beforeClose => (domains[d].closes > 0 /\ d \notin Cached)

\* what does hold: once every call has returned, a Domain that was built is
\* closed or in the cache, where the next Close finds it
C35_DomainClosedOrCached ==
    (\A p \in Procs : pc[p] = "idle")
        => \A d \in DOMAIN domains : domains[d].closes > 0 \/ d \in Cached

\* a Domain built before Close was called sits in the cache, never closed,
\* after Close and the GetDomain call have returned
C35_InsertedAfterClose ==
    /\ AllReturnedAfterClose
    /\ \E d \in DOMAIN domains :
          /\ domains[d].beforeClose
          /\ domains[d].closes = 0
          /\ cache[domains[d].name] = d
          /\ \E x \in returned : x[2] = d

-----------------------------------------------------------------------------
(* AuthRouter: the state machine *)

RouterInit ==
    /\ RegistryIdle
    /\ ForwardIdle
    /\ ConfigIdle
    /\ MapIdle
    /\ PasswdIdle
    /\ rProvider \in RouterProviders
    /\ rFallback \in BOOLEAN
    /\ rUsername \in Usernames
    /\ rPassword \in Passwords
    /\ rOut = NotCalled

\* one call of AuthenticateWithDomain
DoAuthenticateWithDomain ==
    /\ rOut.op = "none"
    /\ \E domAnswer \in AuthAnswers, fbAnswer \in AuthAnswers :
          rOut' = [op |-> "AuthenticateWithDomain", domAnswer |-> domAnswer,
                   fbAnswer |-> fbAnswer] @@
                  AuthenticateWithDomain(rProvider, rFallback, rUsername, rPassword,
                                         domAnswer, fbAnswer)
    /\ UNCHANGED <<rProvider, rFallback, rUsername, rPassword>>
    /\ UNCHANGED <<registryVars, forwardVars, configVars, mapVars, passwdVars>>

\* one call of Authenticate
DoRouterAuthenticate ==
    /\ rOut.op = "none"
    /\ \E domAnswer \in AuthAnswers, fbAnswer \in AuthAnswers :
          rOut' = [op |-> "Authenticate", domAnswer |-> domAnswer,
                   fbAnswer |-> fbAnswer] @@
                  RouterAuthenticate(rProvider, rFallback, rUsername, rPassword,
                                     domAnswer, fbAnswer)
    /\ UNCHANGED <<rProvider, rFallback, rUsername, rPassword>>
    /\ UNCHANGED <<registryVars, forwardVars, configVars, mapVars, passwdVars>>

\* one call of UserExists
DoRouterUserExists ==
    /\ rOut.op = "none"
    /\ \E domAnswer \in ExistsAnswers, fbAnswer \in ExistsAnswers :
          rOut' = [op |-> "UserExists", domAnswer |-> domAnswer,
                   fbAnswer |-> fbAnswer] @@
                  RouterUserExists(rProvider, rFallback, rUsername, domAnswer, fbAnswer)
    /\ UNCHANGED <<rProvider, rFallback, rUsername, rPassword>>
    /\ UNCHANGED <<registryVars, forwardVars, configVars, mapVars, passwdVars>>

\* one call of SplitUsername
DoSplitUsername ==
    /\ rOut.op = "none"
    /\ rOut' = [op |-> "SplitUsername", localPart |-> SplitUsername(rUsername)[1],
                domainName |-> SplitUsername(rUsername)[2]]
    /\ UNCHANGED <<rProvider, rFallback, rUsername, rPassword>>
    /\ UNCHANGED <<registryVars, forwardVars, configVars, mapVars, passwdVars>>

\* one call of ParseLocalPart
DoParseLocalPart ==
    /\ rOut.op = "none"
    /\ rOut' = [op |-> "ParseLocalPart", base |-> ParseLocalPart(rUsername)[1],
                extension |-> ParseLocalPart(rUsername)[2]]
    /\ UNCHANGED <<rProvider, rFallback, rUsername, rPassword>>
    /\ UNCHANGED <<registryVars, forwardVars, configVars, mapVars, passwdVars>>

RouterNext ==
    \/ DoAuthenticateWithDomain
    \/ DoRouterAuthenticate
    \/ DoSplitUsername
    \/ DoParseLocalPart
    \/ DoRouterUserExists

SpecRouter == RouterInit /\ [][RouterNext]_vars

-----------------------------------------------------------------------------
(* AuthRouter: properties *)

\* the parts of the call's username: local[+ext]@domainName
UDomainName == SplitUsername(rUsername)[2]
UBase == ParseLocalPart(SplitUsername(rUsername)[1])[1]
UExtension == ParseLocalPart(SplitUsername(rUsername)[1])[2]

\* the provider resolves the username's domain to a Domain
DomainResolved ==
    /\ ~rProvider.isNil
    /\ UDomainName # <<>>
    /\ ToLower(UDomainName) \in rProvider.served

AuthCalled == rOut.op = "AuthenticateWithDomain"

\* C3: after AuthenticateWithDomain succeeds through a resolved domain, the
\* session's User.Mailbox is exactly base + "@" + domainName.
C3_MailboxIsBaseAtDomain ==
    (AuthCalled /\ DomainResolved /\ rOut.err = Nil /\ ~rOut.result.Session.User.isNil)
        => rOut.result.Session.User.Mailbox = UBase \o <<"@">> \o UDomainName

\* C4: when the provider resolves the username's domain, the only call made
\* is Authenticate(base, password) on that Domain's agent; an error of that
\* agent is returned unchanged, with no result, and the fallback is not called
\* even when one is configured.
C4_ResolvedDomainNeverFallsBack ==
    (AuthCalled /\ DomainResolved)
        => /\ rOut.calls = <<[agent |-> "domain", domain |-> ToLower(UDomainName),
                              username |-> UBase, password |-> rPassword]>>
           /\ rOut.domAnswer \in {ErrAuthFailed, ErrUserNotFound}
                => (rOut.err = rOut.domAnswer /\ rOut.result = NoResult)
           /\ rOut.domAnswer \notin {ErrAuthFailed, ErrUserNotFound}
                => (rOut.err = Nil /\ rOut.result.Domain = ToLower(UDomainName))

\* a resolved domain whose agent refuses, with a fallback configured that
\* would have accepted
C4_Witness ==
    /\ AuthCalled /\ DomainResolved /\ rFallback
    /\ rOut.domAnswer = ErrUserNotFound /\ rOut.fbAnswer = "okMailboxSet"
    /\ UExtension # <<>>
    /\ rOut.err = ErrUserNotFound

\* C5: whenever AuthenticateWithDomain falls through to the fallback, the
\* username it passes is base + "@" + domainName when a domain part is present
\* and the bare base otherwise, for every input username; the result carries
\* Domain = nil and the parsed extension.
C5_FallbackGetsStrippedUsername ==
    (AuthCalled /\ ~DomainResolved /\ rFallback)
        => /\ Len(rOut.calls) = 1
           /\ rOut.calls[1].agent = "fallback"
           /\ rOut.calls[1].username =
                 (IF UDomainName # <<>> THEN UBase \o <<"@">> \o UDomainName ELSE UBase)
           /\ rOut.err = Nil
                => (rOut.result.Domain = NoDomain /\ rOut.result.Extension = UExtension)

\* no Domain is resolved for the username: there is no provider, the
\* username has no domain part, or GetDomain returns nil
NoDomainResolved ==
    \/ rProvider.isNil
    \/ UDomainName = <<>>
    \/ ProviderGetDomain(rProvider, UDomainName) = NoDomain

\* C20: when no domain is resolved for the username and no fallback agent is
\* configured, AuthenticateWithDomain and Authenticate fail with exactly
\* ErrAuthFailed ("authentication failed"), return no result and no session,
\* and call no agent.
C20_NoDomainNoFallbackFails ==
    (NoDomainResolved /\ ~rFallback)
        => /\ AuthCalled
                => (rOut.err = ErrAuthFailed /\ rOut.result = NoResult
                    /\ rOut.calls = <<>>)
           /\ rOut.op = "Authenticate"
                => (rOut.err = ErrAuthFailed /\ rOut.session = NoSession
                    /\ rOut.calls = <<>>)

\* Authenticate for a username whose domain the provider does not serve,
\* with no fallback
C20_Witness ==
    /\ rOut.op = "Authenticate"
    /\ ~rProvider.isNil
    /\ UDomainName # <<>>
    /\ ProviderGetDomain(rProvider, UDomainName) = NoDomain
    /\ ~rFallback
    /\ rOut.err = ErrAuthFailed
    /\ rOut.session.isNil

\* AuthenticateWithDomain with no provider and no fallback
C20_WitnessNoProvider ==
    /\ AuthCalled
    /\ rProvider.isNil
    /\ ~rFallback
    /\ rOut.err = ErrAuthFailed
    /\ rOut.result.isNil

ExistsCalled == rOut.op = "UserExists"

\* the agent calls AuthenticateWithDomain makes for the same router and
\* username, without the password: which agent, of which Domain, with which
\* username (they do not depend on what the agents answer)
AuthCallsFor(provider, fallback, username) ==
    LET calls == AuthenticateWithDomain(provider, fallback, username, <<"p">>,
                                        "okMailboxSet", "okMailboxSet").calls
    IN  [i \in DOMAIN calls |->
            [agent |-> calls[i].agent, domain |-> calls[i].domain,
             username |-> calls[i].username]]

\* the username without its "+extension": base, then "@" and the domain part
\* when the username has an "@"
ExtensionStripped(username) ==
    LET sp == SplitUsername(username)
        base == ParseLocalPart(sp[1])[1]
    IN  IF Len(sp[1]) = Len(username) THEN base ELSE base \o <<"@">> \o sp[2]

\* the answer of the agent UserExists consulted
ConsultedAnswer ==
    AgentUserExists(IF DomainResolved THEN rOut.domAnswer ELSE rOut.fbAnswer)

\* C21 (first part): UserExists consults the agent AuthenticateWithDomain
\* consults, with the username AuthenticateWithDomain passes; it returns
\* that agent's answer, never consults the fallback once a domain is
\* resolved, and returns (false, nil) with no call when there is neither a
\* resolved domain nor a fallback.
C21_UserExistsMirrorsAuthenticate ==
    ExistsCalled
        => /\ rOut.calls = AuthCallsFor(rProvider, rFallback, rUsername)
           /\ DomainResolved
                => /\ rOut.calls = <<[agent |-> "domain", domain |-> ToLower(UDomainName),
                                      username |-> UBase]>>
                   /\ rOut.exists = ConsultedAnswer.exists
                   /\ rOut.err = ConsultedAnswer.err
           /\ (~DomainResolved /\ rFallback)
                => /\ Len(rOut.calls) = 1
                   /\ rOut.calls[1].agent = "fallback"
                   /\ rOut.exists = ConsultedAnswer.exists
                   /\ rOut.err = ConsultedAnswer.err
           /\ (~DomainResolved /\ ~rFallback)
                => (rOut.exists = FALSE /\ rOut.err = Nil /\ rOut.calls = <<>>)

\* C21: as above, and the username UserExists passes is the base for a
\* domain agent and the extension-stripped name for the fallback.
C21_UserExistsConsultsAsAuthenticate ==
    /\ C21_UserExistsMirrorsAuthenticate
    /\ (ExistsCalled /\ ~DomainResolved /\ rFallback)
          => rOut.calls[1].username = ExtensionStripped(rUsername)

\* the string has the character
Contains(s, c) == \E i \in 1..Len(s) : s[i] = c

\* C25: SplitUsername(s) splits on the last "@": when s contains "@" it
\* returns (local, domain) with local + "@" + domain = s and no "@" in
\* domain; when s contains no "@" it returns (s, "").
C25_SplitUsernameOnLastAt ==
    rOut.op = "SplitUsername"
        => IF Contains(rUsername, "@")
           THEN /\ rOut.localPart \o <<"@">> \o rOut.domainName = rUsername
                /\ ~Contains(rOut.domainName, "@")
           ELSE /\ rOut.localPart = rUsername
                /\ rOut.domainName = <<>>

\* "u@d@d" splits into ("u@d", "d")
C25_Witness ==
    /\ rOut.op = "SplitUsername"
    /\ rUsername = <<"u", "@", "d", "@", "d">>
    /\ rOut.localPart = <<"u", "@", "d">>
    /\ rOut.domainName = <<"d">>

\* C26: ParseLocalPart(l) splits on the first "+": when l contains "+" it
\* returns (base, ext) with base + "+" + ext = l and no "+" in base; when l
\* contains no "+" it returns (l, "").
C26_ParseLocalPartOnFirstPlus ==
    rOut.op = "ParseLocalPart"
        => IF Contains(rUsername, "+")
           THEN /\ rOut.base \o <<"+">> \o rOut.extension = rUsername
                /\ ~Contains(rOut.base, "+")
           ELSE /\ rOut.base = rUsername
                /\ rOut.extension = <<>>

\* "u+d+d" parses into ("u", "d+d")
C26_Witness ==
    /\ rOut.op = "ParseLocalPart"
    /\ rUsername = <<"u", "+", "d", "+", "d">>
    /\ rOut.base = <<"u">>
    /\ rOut.extension = <<"d", "+", "d">>

\* "u+" parses into ("u", "")
C26_WitnessEmptyExtension ==
    /\ rOut.op = "ParseLocalPart"
    /\ rUsername = <<"u", "+">>
    /\ rOut.base = <<"u">>
    /\ rOut.extension = <<>>

-----------------------------------------------------------------------------
(* Forwarding: the state machine *)

\* mailAuthAgent.ResolveForward of tenant t
ResolveForward(t, localpart) == resolve(t, localpart)

\* the entry tenant with its chain, user file and stores; the other tenant as
\* the registry serves it, or does not
ForwardInit ==
    /\ RouterIdle
    /\ RegistryIdle
    /\ ConfigIdle
    /\ MapIdle
    /\ PasswdIdle
    /\ \E u \in BOOLEAN, dm \in EntryDomainMaps, df \in EntryDefaultMaps,
          om \in OtherDomainMaps :
          fwChain = [t \in Tenants |->
                        IF t = FwEntry
                        THEN [userForwardsDir |-> u, domainForwards |-> dm,
                              defaultForwards |-> df]
                        ELSE [userForwardsDir |-> FALSE, domainForwards |-> om,
                              defaultForwards |-> EmptyMap]]
    /\ \E k \in AgentKinds :
          fwAgent = [n \in FwNames |->
                        IF n = FwEntry THEN "smart" ELSE IF n = FwOther THEN k ELSE "none"]
    /\ fwStoreFails \in SUBSET Tenants
    /\ \E f \in UserFiles :
          fwFiles = [t \in Tenants |->
                        IF t = FwEntry THEN (<<"a">> :> f) ELSE (<<"a">> :> MissingFile)]
    /\ fwOut = NotCalled
    /\ fwBuilt = [user |-> fwFiles[FwEntry][<<"a">>],
                  domain |-> fwChain[FwEntry].domainForwards,
                  default |-> fwChain[FwEntry].defaultForwards]
    /\ fwDisk = [domain |-> fwChain[FwEntry].domainForwards,
                 default |-> fwChain[FwEntry].defaultForwards]

\* one call of the entry tenant's DeliveryAgent.Deliver
DoDeliver ==
    /\ fwOut.op = "none"
    /\ \E e \in Envelopes, m \in Messages :
          fwOut' = [op |-> "Deliver", t |-> FwEntry, envelope |-> e, message |-> m,
                    out |-> Deliver(FwEntry, e, m, 1)]
    /\ UNCHANGED <<fwChain, fwAgent, fwStoreFails, fwFiles, fwBuilt, fwDisk>>
    /\ UNCHANGED <<routerVars, registryVars, configVars, mapVars, passwdVars>>

\* one call of a tenant's AuthAgent.ResolveForward
DoResolveForward ==
    /\ fwOut.op = "none"
    /\ \E t \in Tenants, lp \in FwLocalParts :
          fwOut' = [op |-> "ResolveForward", t |-> t, user |-> lp,
                    out |-> ResolveForward(t, lp)]
    /\ UNCHANGED <<fwChain, fwAgent, fwStoreFails, fwFiles, fwBuilt, fwDisk>>
    /\ UNCHANGED <<routerVars, registryVars, configVars, mapVars, passwdVars>>

\* one call of the entry tenant's AuthAgent.UserExists
DoMailUserExists ==
    /\ fwOut.op = "none"
    /\ \E lp \in FwLocalParts, innerAnswer \in ExistsAnswers :
          fwOut' = [op |-> "UserExists", t |-> FwEntry, user |-> lp,
                    innerAnswer |-> innerAnswer,
                    out |-> MailUserExists(FwEntry, lp, innerAnswer)]
    /\ UNCHANGED <<fwChain, fwAgent, fwStoreFails, fwFiles, fwBuilt, fwDisk>>
    /\ UNCHANGED <<routerVars, registryVars, configVars, mapVars, passwdVars>>

\* one call of AuthAgent.Authenticate with the same arguments on each tenant's
\* decorated agent, the tenants sharing one credential backend
DoMailAuthenticate ==
    /\ fwOut.op = "none"
    /\ \E lp \in FwLocalParts, pw \in Passwords, innerAnswer \in AuthAnswers :
          fwOut' = [op |-> "Authenticate", user |-> lp, password |-> pw,
                    innerAnswer |-> innerAnswer,
                    out |-> [t \in Tenants |-> MailAuthenticate(t, lp, pw, innerAnswer)]]
    /\ UNCHANGED <<fwChain, fwAgent, fwStoreFails, fwFiles, fwBuilt, fwDisk>>
    /\ UNCHANGED <<routerVars, registryVars, configVars, mapVars, passwdVars>>

\* the user's forward file is written, removed or made unreadable; a result
\* recorded before belongs to the file as it was
WriteUserForward ==
    /\ \E f \in UserFiles :
          /\ f # fwFiles[FwEntry][<<"a">>]
          /\ fwFiles' = [fwFiles EXCEPT ![FwEntry] = (<<"a">> :> f)]
    /\ fwOut' = NotCalled
    /\ UNCHANGED <<fwChain, fwAgent, fwStoreFails, fwBuilt, fwDisk>>
    /\ UNCHANGED <<routerVars, registryVars, configVars, mapVars, passwdVars>>

ForwardNext ==
    \/ DoDeliver
    \/ DoResolveForward
    \/ DoMailUserExists
    \/ DoMailAuthenticate
    \/ WriteUserForward

SpecForward == ForwardInit /\ [][ForwardNext]_vars

\* the tenant's or the base-level forwarding rules are edited while the
\* Domain is in use: nothing reads them again, the Domain built before the
\* edit stays in the registry's cache with the maps loadDomain gave it
WriteForwardConfig ==
    /\ \/ \E dm \in EntryDomainMaps \ {fwDisk.domain} :
             fwDisk' = [fwDisk EXCEPT !.domain = dm]
       \/ \E df \in EntryDefaultMaps \ {fwDisk.default} :
             fwDisk' = [fwDisk EXCEPT !.default = df]
    /\ fwOut' = NotCalled
    /\ UNCHANGED <<fwChain, fwAgent, fwStoreFails, fwFiles, fwBuilt>>
    /\ UNCHANGED <<routerVars, registryVars, configVars, mapVars, passwdVars>>

\* the entry tenant's Domain, built and in use while its forward sources
\* are edited; the other tenant has a working store and no rules
LiveInit ==
    /\ ForwardInit
    /\ fwStoreFails = {}
    /\ fwAgent[FwOther] = "smart"
    /\ fwChain[FwOther].domainForwards = EmptyMap

LiveNext ==
    \/ DoDeliver
    \/ DoResolveForward
    \/ DoMailUserExists
    \/ WriteUserForward
    \/ WriteForwardConfig

SpecForwardLive == LiveInit /\ [][LiveNext]_vars

-----------------------------------------------------------------------------
(* Tenant configuration: the state machine *)

ConfigInit ==
    /\ RouterIdle
    /\ RegistryIdle
    /\ ForwardIdle
    /\ MapIdle
    /\ PasswdIdle
    /\ cfgBase \in BaseConfigs
    /\ cfgOverride \in OverrideConfigs
    /\ cfgOut = NotCalled

\* one call of mergeConfig: of the provider's config with the tenant's, as
\* loadDomain calls it, of a config with itself, or with the zero config
DoMergeConfig ==
    /\ cfgOut.op = "none"
    /\ \E pair \in {<<cfgBase, cfgOverride>>, <<cfgOverride, cfgOverride>>,
                    <<cfgBase, ZeroConfig>>} :
          /\ ~pair[1].isNil
          /\ ~pair[2].isNil
          /\ cfgOut' = [op |-> "mergeConfig", base |-> pair[1], override |-> pair[2],
                        out |-> mergeConfig(pair[1], pair[2])]
    /\ UNCHANGED <<cfgBase, cfgOverride>>
    /\ UNCHANGED <<routerVars, registryVars, forwardVars, mapVars, passwdVars>>

\* loadDomain builds the forwarding maps of the tenant's chain
DoLoadDomainForwards ==
    /\ cfgOut.op = "none"
    /\ cfgOut' = [op |-> "loadDomain", out |-> LoadDomainForwards(cfgOverride, cfgBase)]
    /\ UNCHANGED <<cfgBase, cfgOverride>>
    /\ UNCHANGED <<routerVars, registryVars, forwardVars, mapVars, passwdVars>>

\* one call of loadDomain for a tenant with or without a config.toml, on a
\* provider with or without defaults, whatever the backends and files answer
DoLoadDomain ==
    /\ cfgOut.op = "none"
    /\ \E fromFiles \in BOOLEAN, ans \in StepAnswers :
          cfgOut' = [op |-> "loadDomainBuild", fromFiles |-> fromFiles, ans |-> ans,
                     out |-> loadDomain(~cfgBase.isNil, ~cfgOverride.isNil, fromFiles, ans)]
    /\ UNCHANGED <<cfgBase, cfgOverride>>
    /\ UNCHANGED <<routerVars, registryVars, forwardVars, mapVars, passwdVars>>

ConfigNext ==
    \/ DoMergeConfig
    \/ DoLoadDomainForwards
    \/ DoLoadDomain

SpecConfig == ConfigInit /\ [][ConfigNext]_vars

-----------------------------------------------------------------------------
(* ForwardMap: the state machine *)

\* a forwards file to load, or a map of rules to convert
ForwardMapInit ==
    /\ RouterIdle
    /\ RegistryIdle
    /\ ForwardIdle
    /\ ConfigIdle
    /\ PasswdIdle
    /\ \/ fmFile \in FmFiles /\ fmRules = NilForwards
       \/ fmFile = MissingFile /\ fmRules \in FmRuleMaps
    /\ fmMap = NoMap
    /\ fmOut = {}

\* m, err := forwards.Load(path)
DoLoad ==
    /\ fmMap.how = "none"
    /\ fmMap' = [how |-> "Load", err |-> Load(fmFile).err, m |-> Load(fmFile).m]
    /\ UNCHANGED <<fmFile, fmRules, fmOut>>
    /\ UNCHANGED <<routerVars, registryVars, forwardVars, configVars, passwdVars>>

\* m := forwards.FromMap(rules)
DoFromMap ==
    /\ fmMap.how = "none"
    /\ \E m \in FromMapOutcomes(fmRules) :
          fmMap' = [how |-> "FromMap", err |-> Nil, m |-> m]
    /\ UNCHANGED <<fmFile, fmRules, fmOut>>
    /\ UNCHANGED <<routerVars, registryVars, forwardVars, configVars, passwdVars>>

\* m.Resolve(lp) on the map that was built, for a local part not asked yet;
\* when Load failed m is nil and Resolve answers (nil, false)
DoResolve(lp) ==
    /\ fmMap.how # "none"
    /\ \A r \in fmOut : r.localpart # lp
    /\ LET out == IF fmMap.err # Nil THEN [targets |-> <<>>, found |-> FALSE]
                  ELSE Resolve(fmMap.m, lp)
       IN  fmOut' = fmOut \cup
                       {[localpart |-> lp, targets |-> out.targets, found |-> out.found]}
    /\ UNCHANGED <<fmFile, fmRules, fmMap>>
    /\ UNCHANGED <<routerVars, registryVars, forwardVars, configVars, passwdVars>>

ForwardMapNext ==
    \/ DoLoad
    \/ DoFromMap
    \/ \E lp \in FmProbes : DoResolve(lp)

SpecForwardMap == ForwardMapInit /\ [][ForwardMapNext]_vars

-----------------------------------------------------------------------------
(* Forwarding: properties *)

\* the targets a ForwardMap lists for a local part: those of its exact rule,
\* else those of its wildcard; <<>> when it has no rule
MapRule(m, lp) ==
    IF ToLower(lp) \in DOMAIN m.exact THEN m.exact[ToLower(lp)] ELSE m.catchall

\* the targets listed in the file user_forwards/lp of tenant t; <<>> when the
\* chain has no user directory or the file is missing, unreadable or lists none
UserRule(t, lp) ==
    IF fwChain[t].userForwardsDir /\ LoadTargets(UserForwardFile(t, lp)).err = Nil
    THEN LoadTargets(UserForwardFile(t, lp)).targets
    ELSE <<>>

\* the rule of each level for lp, in the order user, domain, default
Levels(t, lp) ==
    <<UserRule(t, lp), MapRule(fwChain[t].domainForwards, lp),
      MapRule(fwChain[t].defaultForwards, lp)>>

\* the levels that have a rule for lp
RuleLevels(t, lp) == {i \in 1..3 : Levels(t, lp)[i] # <<>>}

FirstRuleLevel(t, lp) == CHOOSE i \in RuleLevels(t, lp) : \A j \in RuleLevels(t, lp) : i <= j

\* C6: resolve returns the targets of the first level that has a rule, in
\* the order user file, domain map, default map, and only that level's targets;
\* it returns (nil, false) only when no level has a rule.
C6_ResolveFirstLevelWins ==
    fwOut.op = "ResolveForward"
        => IF RuleLevels(fwOut.t, fwOut.user) = {}
           THEN fwOut.out = [targets |-> <<>>, found |-> FALSE]
           ELSE fwOut.out = [targets |-> Levels(fwOut.t, fwOut.user)
                                            [FirstRuleLevel(fwOut.t, fwOut.user)],
                             found |-> TRUE]

\* all three levels have a rule for "a", each with other targets, and resolve
\* answered with the user file's two targets
C6_Witness ==
    /\ fwOut.op = "ResolveForward"
    /\ fwOut.t = FwEntry
    /\ fwOut.user = <<"a">>
    /\ RuleLevels(FwEntry, <<"a">>) = {1, 2, 3}
    /\ fwOut.out = [targets |-> <<Addr(<<"u">>, FwOther), Addr(<<"u">>, Unserved)>>,
                    found |-> TRUE]
    /\ Levels(FwEntry, <<"a">>)[2] = <<Addr(<<"b">>, FwEntry)>>
    /\ Levels(FwEntry, <<"a">>)[3] = <<Addr(<<"d">>, FwOther)>>

\* C10: when the inner agent answers without error, the decorated UserExists
\* is true exactly when the inner agent reports the user or some level of the
\* chain has a rule for the user.
C10_UserExistsInnerOrForward ==
    (fwOut.op = "UserExists" /\ fwOut.innerAnswer # ErrBackend)
        => /\ fwOut.out.err = Nil
           /\ fwOut.out.exists <=> (fwOut.innerAnswer = "yes"
                                    \/ RuleLevels(fwOut.t, fwOut.user) # {})

\* a user the inner agent does not know, matched by the default wildcard only
C10_Witness ==
    /\ fwOut.op = "UserExists"
    /\ fwOut.innerAnswer = "no"
    /\ fwOut.user = <<"b">>
    /\ RuleLevels(FwEntry, <<"b">>) = {3}
    /\ fwChain[FwEntry].defaultForwards.exact = <<>>
    /\ fwOut.out = [exists |-> TRUE, err |-> Nil]

\* the local part of the first recipient of the recorded Deliver call
FirstLocalPart == SplitUsername(fwOut.envelope.Recipients[1])[1]

\* the recorded Deliver call found a forward rule for its first recipient
Forwarded ==
    /\ fwOut.op = "Deliver"
    /\ fwOut.envelope.Recipients # <<>>
    /\ RuleLevels(fwOut.t, FirstLocalPart) # {}

\* the targets of that rule
FwdTargets == Levels(fwOut.t, FirstLocalPart)[FirstRuleLevel(fwOut.t, FirstLocalPart)]

\* the domain part of a target: what follows its last "@"
TargetDomain(target) ==
    IF LastIndex(target, "@") = 0 THEN <<>>
    ELSE SubSeq(target, LastIndex(target, "@") + 1, Len(target))

\* the registry serves a Domain for the target's domain
LocallyServed(target) ==
    /\ TargetDomain(target) # <<>>
    /\ ToLower(TargetDomain(target)) \in DOMAIN fwAgent
    /\ fwAgent[ToLower(TargetDomain(target))] # "none"

\* ... and that Domain has a delivery agent
Deliverable(target) ==
    LocallyServed(target) /\ fwAgent[ToLower(TargetDomain(target))] # "noagent"

\* the calls the recorded Deliver made itself, not those of nested deliveries
IsDirect(e) == e.depth = 1
IsAgentCall(e) == e.depth = 1 /\ e.ev = "agent"
IsLookup(e) == e.depth = 1 /\ e.ev = "lookup"
DirectCalls == SelectSeq(fwOut.out.log, IsDirect)
AgentCalls == SelectSeq(fwOut.out.log, IsAgentCall)
Lookups == SelectSeq(fwOut.out.log, IsLookup)

\* the elements of seq at the positions in S, in order
SubSeqAt(seq, S) ==
    LET idx == CHOOSE f \in [1..Cardinality(S) -> S] :
                   \A i, j \in 1..Cardinality(S) : i < j => f[i] < f[j]
    IN  [k \in 1..Cardinality(S) |-> seq[idx[k]]]

\* the positions of the targets that failed: no domain part, a domain with no
\* Domain or no delivery agent, or a delivery that returned an error
FailedTargets(targets) ==
    {i \in 1..Len(targets) :
        \/ ~Deliverable(targets[i])
        \/ AgentCalls[Cardinality({j \in 1..i : Deliverable(targets[j])})].res # <<>>}

\* every target with a domain part is looked up and every deliverable one is
\* delivered to, each once and in the order of the rule
EveryTargetProcessed(targets) ==
    /\ Len(Lookups) = Cardinality({i \in 1..Len(targets) : TargetDomain(targets[i]) # <<>>})
    /\ Len(AgentCalls) = Cardinality({i \in 1..Len(targets) : Deliverable(targets[i])})
    /\ \A k \in 1..Len(AgentCalls) :
          AgentCalls[k].env.Recipients
              = <<SubSeqAt(targets, {i \in 1..Len(targets) : Deliverable(targets[i])})[k]>>

\* the returned error joins one error per failed target, in order, and is nil
\* when none failed
OneErrorPerFailedTarget(targets) ==
    /\ Len(fwOut.out.err) = Cardinality(FailedTargets(targets))
    /\ \A k \in 1..Len(fwOut.out.err) :
          fwOut.out.err[k].target = SubSeqAt(targets, FailedTargets(targets))[k]
    /\ fwOut.out.err # <<>> <=> FailedTargets(targets) # {}

\* C7 as stated: with a rule for the first recipient, a Deliver that returns
\* has processed every target in order, and its error is non-nil exactly when
\* a target failed and joins one error per failed target.
C7_FanOutAsStated ==
    (Forwarded /\ ~fwOut.out.overflow)
        => /\ EveryTargetProcessed(FwdTargets)
           /\ OneErrorPerFailedTarget(FwdTargets)

\* C7: with a rule for the first recipient and a message body that is read to
\* its end without error, a Deliver that returns has processed every target
\* in order; a target with no domain part, with a domain that is not served or
\* has no delivery agent, or whose delivery fails adds one error and does not
\* stop the later targets; the error is non-nil exactly when a target failed
\* and joins one error per failed target.
C7_FanOutCollectsErrors ==
    (Forwarded /\ ~fwOut.message.readErr /\ ~fwOut.out.overflow)
        => /\ EveryTargetProcessed(FwdTargets)
           /\ OneErrorPerFailedTarget(FwdTargets)

\* the rule lists an unserved target first and a served one second: the
\* first added its error, the second was still delivered, with success
C7_Witness ==
    /\ Forwarded
    /\ ~fwOut.message.readErr
    /\ ~fwOut.out.overflow
    /\ FwdTargets = <<Addr(<<"c">>, Unserved), Addr(<<"a">>, FwOther)>>
    /\ Len(fwOut.out.err) = 1
    /\ fwOut.out.err[1].target = Addr(<<"c">>, Unserved)
    /\ Len(AgentCalls) = 1
    /\ AgentCalls[1].to = FwOther
    /\ AgentCalls[1].res = <<>>

\* the call Deliver makes to the delivery agent of a deliverable target
ForwardCall(target) ==
    [by |-> fwOut.t, to |-> ToLower(TargetDomain(target)),
     env |-> [From |-> fwOut.envelope.From, Recipients |-> <<target>>],
     body |-> [data |-> fwOut.message.data, readErr |-> FALSE]]

CallOf(e) == [by |-> e.by, to |-> e.to, env |-> e.env, body |-> e.body]

\* C8 as stated: with a rule for the first recipient, the tenant's own inner
\* store receives no delivery, and each target whose domain is locally served
\* receives exactly one delivery, of an envelope copy addressed to that target
\* alone and of the complete body.
C8_ForwardedAsStated ==
    (Forwarded /\ ~fwOut.out.overflow)
        => /\ \A k \in 1..Len(fwOut.out.log) :
                ~(fwOut.out.log[k].ev = "inner" /\ fwOut.out.log[k].to = fwOut.t)
           /\ LET served == {i \in 1..Len(FwdTargets) : LocallyServed(FwdTargets[i])}
              IN  /\ Len(AgentCalls) = Cardinality(served)
                  /\ \A k \in 1..Len(AgentCalls) :
                        CallOf(AgentCalls[k]) = ForwardCall(SubSeqAt(FwdTargets, served)[k])

\* C8: with a rule for the first recipient and a message body that is read to
\* its end without error, a Deliver that returns has itself made no call to
\* the tenant's inner agent, and has made exactly one call, in the order of the
\* rule, to the delivery agent of each target whose domain is served with a
\* delivery agent: the envelope a copy of the original with Recipients
\* replaced by that target alone, the body a fresh reader over the complete
\* original message.
C8_ForwardedNotDeliveredLocally ==
    (Forwarded /\ ~fwOut.message.readErr /\ ~fwOut.out.overflow)
        => /\ \A k \in 1..Len(DirectCalls) : DirectCalls[k].ev # "inner"
           /\ LET served == {i \in 1..Len(FwdTargets) : Deliverable(FwdTargets[i])}
              IN  /\ Len(AgentCalls) = Cardinality(served)
                  /\ \A k \in 1..Len(AgentCalls) :
                        CallOf(AgentCalls[k]) = ForwardCall(SubSeqAt(FwdTargets, served)[k])

\* a rule with a target without domain and twice the same served target: two
\* deliveries to the other tenant, none to the tenant's own store
C8_Witness ==
    /\ Forwarded
    /\ ~fwOut.message.readErr
    /\ ~fwOut.out.overflow
    /\ fwOut.envelope.Recipients = <<Addr(<<"A">>, FwEntry)>>
    /\ FwdTargets = <<<<"b">>, Addr(<<"a">>, FwOther), Addr(<<"a">>, FwOther)>>
    /\ Len(AgentCalls) = 2
    /\ AgentCalls[1].env = [From |-> <<"s">>, Recipients |-> <<Addr(<<"a">>, FwOther)>>]
    /\ AgentCalls[2].body = [data |-> <<"m", "n">>, readErr |-> FALSE]
    /\ \A k \in 1..Len(fwOut.out.log) : fwOut.out.log[k].to # FwEntry

\* the recorded Deliver call has no recipient, or no level has a rule for the
\* local part of its first recipient
NotForwarded ==
    /\ fwOut.op = "Deliver"
    /\ \/ fwOut.envelope.Recipients = <<>>
       \/ RuleLevels(fwOut.t, FirstLocalPart) = {}

\* C9: with no recipient, or no rule at any level for the first recipient's
\* local part, Deliver makes exactly one call, to the inner agent, with the
\* unchanged envelope and message; it makes no registry lookup and no delivery
\* to another domain, and returns the inner agent's result.
C9_NoRuleDeliversLocally ==
    NotForwarded
        => /\ ~fwOut.out.overflow
           /\ Len(fwOut.out.log) = 1
           /\ fwOut.out.log[1].ev = "inner"
           /\ fwOut.out.log[1].to = fwOut.t
           /\ fwOut.out.log[1].env = fwOut.envelope
           /\ fwOut.out.log[1].body = fwOut.message
           /\ fwOut.out.err = fwOut.out.log[1].res

\* two recipients, a rule for the second one only: one delivery to the inner
\* store, which fails, and Deliver returns that failure
C9_Witness ==
    /\ NotForwarded
    /\ fwOut.envelope.Recipients = <<Addr(<<"b">>, FwEntry), Addr(<<"a">>, FwEntry)>>
    /\ RuleLevels(fwOut.t, <<"a">>) # {}
    /\ Len(fwOut.out.log) = 1
    /\ fwOut.out.log[1].env = fwOut.envelope
    /\ fwOut.out.err # <<>>
    /\ FwEntry \in fwStoreFails

\* C11: the decorated Authenticate returns exactly what the inner agent
\* returns for the same arguments, whatever the forwarding rules: tenants that
\* differ only in their chain give the same outcome, and an address with a
\* forward rule that the inner agent rejects obtains no session.
C11_AuthenticateIgnoresForwards ==
    fwOut.op = "Authenticate"
        => /\ \A t \in Tenants :
                fwOut.out[t] = AgentAuthenticate(fwOut.innerAnswer, fwOut.user)
           /\ \A t1, t2 \in Tenants : fwOut.out[t1] = fwOut.out[t2]
           /\ \A t \in Tenants :
                (fwOut.innerAnswer \in {ErrAuthFailed, ErrUserNotFound}
                 /\ RuleLevels(t, fwOut.user) # {})
                    => fwOut.out[t] = [err |-> fwOut.innerAnswer, session |-> NoSession]

\* "a" has a forward rule in the entry tenant and none in the other, the
\* credential backend does not know it: both tenants answer "user not found"
C11_Witness ==
    /\ fwOut.op = "Authenticate"
    /\ fwOut.user = <<"a">>
    /\ fwOut.innerAnswer = ErrUserNotFound
    /\ RuleLevels(FwEntry, <<"a">>) # {}
    /\ RuleLevels(FwOther, <<"a">>) = {}
    /\ fwOut.out[FwEntry].err = ErrUserNotFound
    /\ fwOut.out[FwEntry].session.isNil
    /\ fwOut.out[FwOther] = fwOut.out[FwEntry]

-----------------------------------------------------------------------------
(* Tenant configuration: properties *)

FwProbes == {<<"a">>, <<"A">>, <<"b">>}

\* the targets a [forwards] section lists for lp: under a key that equals lp
\* up to letter case, else under "*"; <<>> when it lists none
DeclaredRule(f, lp) ==
    LET hits == {k \in DOMAIN f.rules \ {<<"*">>} :
                    ToLower(k) = ToLower(lp) /\ ParseTargets(f.rules[k]) # <<>>}
    IN  IF hits # {} THEN ParseTargets(f.rules[CHOOSE k \in hits : TRUE])
        ELSE IF <<"*">> \in DOMAIN f.rules THEN ParseTargets(f.rules[<<"*">>])
        ELSE <<>>

\* the [forwards] section of the provider-level config, if there is one
BaseForwards == IF cfgBase.isNil THEN NilForwards ELSE cfgBase.Forwards

\* the tenant's own config declares a [forwards] section
TenantDeclaresForwards == ~cfgOverride.isNil /\ cfgOverride.Forwards.declared

IsMergeCall == cfgOut.op = "mergeConfig"

\* C18: mergeConfig(base, override) gives the result override's forwarding
\* map, as a whole, whenever override declares one (an empty one included),
\* and base's map when override declares none.
C18_MergeReplacesForwards ==
    IsMergeCall
        => cfgOut.out.Forwards = IF cfgOut.override.Forwards.declared
                                 THEN cfgOut.override.Forwards
                                 ELSE cfgOut.base.Forwards

\* what mergeConfig does with the forwarding map: the result holds base's
C18_MergeKeepsBaseForwards ==
    IsMergeCall => cfgOut.out.Forwards = cfgOut.base.Forwards

\* a scalar field of the result: override's unless that is the zero value
Pick(zero, b, o) == IF o # zero THEN o ELSE b

\* an options map of the result: override's unless that has no entries
PickOptions(b, o) == IF o.entries # {} THEN o ELSE b

\* C19: every scalar field and each options map of mergeConfig(base,
\* override) holds override's value when that is non-zero/non-empty and
\* base's otherwise; merging the zero config into base gives base, and
\* merging a config into itself gives that config.
C19_MergeFieldwise ==
    IsMergeCall =>
        LET b == cfgOut.base
            o == cfgOut.override
            r == cfgOut.out
        IN  /\ r.Gid = Pick(0, b.Gid, o.Gid)
            /\ r.Auth.Type = Pick(<<>>, b.Auth.Type, o.Auth.Type)
            /\ r.Auth.CredentialBackend
                  = Pick(<<>>, b.Auth.CredentialBackend, o.Auth.CredentialBackend)
            /\ r.Auth.KeyBackend = Pick(<<>>, b.Auth.KeyBackend, o.Auth.KeyBackend)
            /\ r.Auth.Options = PickOptions(b.Auth.Options, o.Auth.Options)
            /\ r.MsgStore.Type = Pick(<<>>, b.MsgStore.Type, o.MsgStore.Type)
            /\ r.MsgStore.BasePath = Pick(<<>>, b.MsgStore.BasePath, o.MsgStore.BasePath)
            /\ r.MsgStore.Options = PickOptions(b.MsgStore.Options, o.MsgStore.Options)
            /\ (o = ZeroConfig => r = b)
            /\ (o = b => r = b)

\* a partial override: the tenant sets the group id and leaves the store's
\* base path unset, over a base that sets both
C19_Witness ==
    /\ IsMergeCall
    /\ cfgOut.base.Gid = 1000
    /\ cfgOut.override.Gid = 2001
    /\ cfgOut.out.Gid = 2001
    /\ cfgOut.override.MsgStore.BasePath = <<>>
    /\ cfgOut.base.MsgStore.BasePath # <<>>
    /\ cfgOut.out.MsgStore.BasePath = cfgOut.base.MsgStore.BasePath

\* a call of loadDomain that failed after it had opened a backend
FailedAfterOpen ==
    /\ cfgOut.op = "loadDomainBuild"
    /\ cfgOut.out.err # Nil
    /\ cfgOut.out.opened # {}

\* C30: whenever loadDomain fails after it has opened one or more backends
\* (msgstore.Open fails after the auth agent is open, or a forwards file fails
\* to load after the auth agent and the store are open), every backend opened
\* so far has been closed when the error is returned.
C30_FailureClosesOpenedBackends ==
    FailedAfterOpen => cfgOut.out.opened \subseteq cfgOut.out.closed

\* what does hold: a failing loadDomain closes the auth agent it opened, and a
\* failure of msgstore.Open leaves nothing open
C30_FailureClosesAuthAgent ==
    FailedAfterOpen
        => /\ "auth" \in cfgOut.out.closed
           /\ cfgOut.out.err = "create msgstore" => cfgOut.out.opened = cfgOut.out.closed

\* msgstore.Open failed after the auth agent was opened, and the auth agent
\* was closed
C30_StoreOpenFailure ==
    /\ FailedAfterOpen
    /\ cfgOut.out.err = "create msgstore"
    /\ cfgOut.out.opened = {"auth"}
    /\ cfgOut.out.closed = {"auth"}

\* the default forwards file failed to load with both backends open: the
\* store stays open
C30_StoreLeftOpen ==
    /\ FailedAfterOpen
    /\ cfgOut.out.err = "load default forwards"
    /\ cfgOut.out.opened = {"auth", "store"}
    /\ cfgOut.out.closed = {"auth"}

-----------------------------------------------------------------------------
(* passwd: the state machine *)

PasswdInit ==
    /\ RouterIdle
    /\ RegistryIdle
    /\ ForwardIdle
    /\ ConfigIdle
    /\ MapIdle
    /\ pwFile \in PasswdFiles
    /\ pwOut = NotCalled
    /\ pwAdded = <<>>
    /\ pwOdd = FALSE
    /\ pwCalls = 0

\* the usernames of a list of entries
NamesOf(users) == [i \in 1..Len(users) |-> users[i].Username]

\* a sequence without the entries equal to u
Without(seq, u) ==
    LET Other(x) == x # u
    IN  SelectSeq(seq, Other)

\* one AddUser call; the record keeps what ListUsers gives before and after
DoAddUser(u) ==
    /\ pwCalls < MaxEdits
    /\ LET r == AddUser(pwFile, u, <<"p">>)
       IN  /\ pwFile' = r.file
           /\ pwOut' = [op |-> "AddUser", username |-> u, err |-> r.err,
                        before |-> NamesOf(ListUsers(pwFile)),
                        after |-> NamesOf(ListUsers(r.file))]
           /\ pwAdded' = IF r.err = Nil THEN Append(pwAdded, u) ELSE pwAdded
    /\ pwOdd' = (pwOdd \/ OddUsername(u))
    /\ pwCalls' = pwCalls + 1
    /\ UNCHANGED <<routerVars, registryVars, forwardVars, configVars, mapVars>>

\* one DeleteUser call
DoDeleteUser(u) ==
    /\ pwCalls < MaxEdits
    /\ LET r == DeleteUser(pwFile, u)
       IN  /\ pwFile' = r.file
           /\ pwOut' = [op |-> "DeleteUser", username |-> u, err |-> r.err,
                        before |-> NamesOf(ListUsers(pwFile)),
                        after |-> NamesOf(ListUsers(r.file))]
           /\ pwAdded' = IF r.err = Nil THEN Without(pwAdded, u) ELSE pwAdded
    /\ pwCalls' = pwCalls + 1
    /\ UNCHANGED pwOdd
    /\ UNCHANGED <<routerVars, registryVars, forwardVars, configVars, mapVars>>

\* one ListUsers call
DoListUsers ==
    /\ pwOut.op # "ListUsers"
    /\ pwOut' = [op |-> "ListUsers", username |-> <<>>, err |-> Nil,
                 before |-> NamesOf(ListUsers(pwFile)),
                 after |-> NamesOf(ListUsers(pwFile))]
    /\ UNCHANGED <<pwFile, pwAdded, pwOdd, pwCalls>>
    /\ UNCHANGED <<routerVars, registryVars, forwardVars, configVars, mapVars>>

PasswdNext ==
    \/ \E u \in PwUsernames : DoAddUser(u)
    \/ \E u \in PwUsernames : DoDeleteUser(u)
    \/ DoListUsers

SpecPasswd == PasswdInit /\ [][PasswdNext]_vars

-----------------------------------------------------------------------------
(* ForwardMap: properties *)

\* a ForwardMap was built and is not nil
MapBuilt == fmMap.how # "none" /\ fmMap.err = Nil

\* the map in use has an exact rule for lp
HasExactRule(lp) == ToLower(lp) \in DOMAIN fmMap.m.exact

\* the map in use has a wildcard rule
HasWildcard == fmMap.m.catchall # <<>>

\* C22: Resolve returns the exact-match targets whenever an exact rule exists
\* for the local part, even if a wildcard rule is also present; the wildcard
\* targets only when no exact rule matches and a wildcard is set; and found =
\* false only when neither exists.
C22_ExactBeatsWildcard ==
    MapBuilt =>
        \A r \in fmOut :
            /\ HasExactRule(r.localpart)
                  => (r.found /\ r.targets = fmMap.m.exact[ToLower(r.localpart)])
            /\ (~HasExactRule(r.localpart) /\ HasWildcard)
                  => (r.found /\ r.targets = fmMap.m.catchall)
            /\ ~r.found <=> (~HasExactRule(r.localpart) /\ ~HasWildcard)

\* a map with an exact rule for "a" and a wildcard: "a" got its own targets,
\* "b" the wildcard's
C22_Witness ==
    /\ MapBuilt
    /\ HasWildcard
    /\ HasExactRule(<<"a">>)
    /\ fmMap.m.exact[<<"a">>] # fmMap.m.catchall
    /\ [localpart |-> <<"a">>, targets |-> fmMap.m.exact[<<"a">>], found |-> TRUE] \in fmOut
    /\ [localpart |-> <<"b">>, targets |-> fmMap.m.catchall, found |-> TRUE] \in fmOut

\* what one line of a forwards file says: whether it is a rule with at least
\* one non-empty target, its key, and its targets trimmed and lower-cased
IsRuleLine(text) ==
    LET line == TrimSpace(text)
    IN  /\ line # <<>>
        /\ ~IsComment(line)
        /\ CutColon(line).ok
        /\ ParseTargets(CutColon(line).after) # <<>>
LineKey(text) == TrimSpace(ToLower(CutColon(TrimSpace(text)).before))
LineTargets(text) == ParseTargets(CutColon(TrimSpace(text)).after)

\* the rule lines of the file for a key, by position
RuleLinesFor(key) ==
    {i \in 1..Len(fmFile.lines) :
        IsRuleLine(fmFile.lines[i]) /\ LineKey(fmFile.lines[i]) = key}

\* the rules the map was built from hold one for lp, under a key written in
\* any letter case
SourceHasRule(lp) ==
    IF fmMap.how = "Load"
    THEN ToLower(lp) # <<"*">> /\ RuleLinesFor(ToLower(lp)) # {}
    ELSE \E k \in DOMAIN fmRules.rules \ {<<"*">>} :
            ToLower(k) = ToLower(lp) /\ ParseTargets(fmRules.rules[k]) # <<>>

\* C23: lookup is case-insensitive: on a map built by Load or FromMap from
\* rules whose keys are written in any letter case, Resolve gives the same
\* result for every letter-case variant of a local part, and finds the rule
\* written for any of them.
C23_ResolveIgnoresCase ==
    MapBuilt =>
        /\ \A r1, r2 \in fmOut :
              ToLower(r1.localpart) = ToLower(r2.localpart)
                  => (r1.found = r2.found /\ r1.targets = r2.targets)
        /\ \A r \in fmOut : SourceHasRule(r.localpart) => r.found

\* the rules are keyed "A" only; Resolve("a") and Resolve("A") find the
\* same targets
C23_Witness ==
    /\ MapBuilt
    /\ fmMap.how = "FromMap"
    /\ DOMAIN fmRules.rules = {<<"A">>}
    /\ \E t \in {fmMap.m.exact[<<"a">>]} :
          /\ t # <<>>
          /\ [localpart |-> <<"a">>, targets |-> t, found |-> TRUE] \in fmOut
          /\ [localpart |-> <<"A">>, targets |-> t, found |-> TRUE] \in fmOut

\* a forwards file was loaded into the map in use
FileLoaded == MapBuilt /\ fmMap.how = "Load" /\ fmFile.state = "file"

\* the "*" lines of the file with at least one target, by position
WildcardLines ==
    {i \in 1..Len(fmFile.lines) :
        IsRuleLine(fmFile.lines[i]) /\ LineKey(fmFile.lines[i]) = <<"*">>}

\* the last position of a non-empty set of positions
LastOf(S) == CHOOSE i \in S : \A j \in S : j <= i

\* C24: for every rule line "key:t1,t2,..." with at least one non-empty
\* target, Resolve(key) on the loaded map returns found = true and exactly
\* the non-empty targets of that line, trimmed and lower-cased, in the order
\* written; lines with no ":" or no non-empty target create no rule; and a
\* "*" line sets the result for every otherwise unmatched local part.
C24_EveryRuleLineResolves ==
    FileLoaded =>
        \A r \in fmOut :
            LET key == ToLower(r.localpart)
            IN  /\ \A i \in RuleLinesFor(key) :
                      (r.found /\ r.targets = LineTargets(fmFile.lines[i]))
                /\ RuleLinesFor(key) = {}
                      => /\ \A i \in WildcardLines :
                               (r.found /\ r.targets = LineTargets(fmFile.lines[i]))
                         /\ WildcardLines = {} => ~r.found

\* C24 (amended): of the rule lines written for the same key the last one
\* is the rule: Resolve(key) returns found = true and exactly the targets
\* of the last rule line for that key; with no rule line for the local part
\* it returns the targets of the last "*" line, and found = false when
\* there is none either.
C24_LastRuleLineResolves ==
    FileLoaded =>
        \A r \in fmOut :
            LET key == ToLower(r.localpart)
            IN  /\ RuleLinesFor(key) # {}
                      => /\ r.found
                         /\ r.targets = LineTargets(fmFile.lines[LastOf(RuleLinesFor(key))])
                /\ (RuleLinesFor(key) = {} /\ WildcardLines # {})
                      => /\ r.found
                         /\ r.targets = LineTargets(fmFile.lines[LastOf(WildcardLines)])
                /\ (RuleLinesFor(key) = {} /\ WildcardLines = {}) => ~r.found

\* a rule for "a" with two targets written in upper case and with blanks,
\* and a "*" line: "a" resolves to the two targets in order, "b" to the
\* wildcard's
C24_Witness ==
    /\ FileLoaded
    /\ fmFile.lines = << <<"a", ":", "D", ",", " ", "o">>, <<"*", ":", "t">> >>
    /\ [localpart |-> <<"a">>, targets |-> << <<"d">>, <<"o">> >>, found |-> TRUE] \in fmOut
    /\ [localpart |-> <<"b">>, targets |-> << <<"t">> >>, found |-> TRUE] \in fmOut

-----------------------------------------------------------------------------
(* Forwarding: edits while the Domain is in use *)

\* the call recorded is one on the entry tenant's chain for local part lp
LiveCallFor(lp) ==
    \/ fwOut.op \in {"ResolveForward", "UserExists"} /\ fwOut.t = FwEntry /\ fwOut.user = lp
    \/ /\ fwOut.op = "Deliver"
       /\ fwOut.envelope.Recipients # <<>>
       /\ SplitUsername(fwOut.envelope.Recipients[1])[1] = lp

\* the rule of each level for lp: the user file as it is now, the tenant's
\* and the base-level rules as they were when the Domain was built
LiveLevels(lp) ==
    <<UserRule(FwEntry, lp), MapRule(fwBuilt.domain, lp), MapRule(fwBuilt.default, lp)>>

\* the rule the chain has to answer with: that of the first level with one
LiveRule(lp) ==
    IF LiveLevels(lp)[1] # <<>> THEN LiveLevels(lp)[1]
    ELSE IF LiveLevels(lp)[2] # <<>> THEN LiveLevels(lp)[2]
    ELSE LiveLevels(lp)[3]

\* the domains Deliver itself looked up, in order
LookedUp ==
    LET Own(e) == e.ev = "lookup" /\ e.depth = 1
        own == SelectSeq(fwOut.out.log, Own)
    IN  [i \in 1..Len(own) |-> own[i].to]

\* the domain parts of the targets that have one, in order
DomainsOf(targets) ==
    LET doms == [i \in 1..Len(targets) |-> SplitUsername(targets[i])[2]]
        NonEmpty(d) == d # <<>>
    IN  SelectSeq(doms, NonEmpty)

\* the user file, the tenant's rules or the base-level rules were changed
\* after the Domain was built
UserFileEdited == fwFiles[FwEntry][<<"a">>] # fwBuilt.user
ConfigEdited == fwDisk # [domain |-> fwBuilt.domain, default |-> fwBuilt.default]

\* C27: every resolve, UserExists and Deliver answers from the user's forward
\* file as it is at the call, so an edit of the file shows in the very next
\* call, and from the tenant's and the base-level rules as they were when the
\* Domain was built, so an edit of those does not change the answer.
C27_UserFileLiveConfigSnapshot ==
    \A lp \in FwLocalParts :
        LiveCallFor(lp) =>
            /\ fwOut.op = "ResolveForward"
                  => fwOut.out = [targets |-> LiveRule(lp), found |-> LiveRule(lp) # <<>>]
            /\ (fwOut.op = "UserExists" /\ fwOut.innerAnswer = "no")
                  => fwOut.out = [exists |-> LiveRule(lp) # <<>>, err |-> Nil]
            /\ (fwOut.op = "Deliver" /\ ~fwOut.message.readErr /\ ~fwOut.out.overflow)
                  => IF LiveRule(lp) = <<>>
                     THEN /\ Len(fwOut.out.log) = 1
                          /\ fwOut.out.log[1].ev = "inner"
                     ELSE /\ LookedUp = DomainsOf(LiveRule(lp))
                          /\ \A i \in 1..Len(fwOut.out.log) :
                                ~(fwOut.out.log[i].ev = "inner" /\ fwOut.out.log[i].depth = 1)

\* the user file listed targets when the Domain was built and lists none
\* now, and the tenant's rule for "a" was removed after the build: the next
\* resolve answers with the tenant's rule as it was built
C27_Witness ==
    /\ fwOut.op = "ResolveForward" /\ fwOut.t = FwEntry /\ fwOut.user = <<"a">>
    /\ fwChain[FwEntry].userForwardsDir
    /\ LoadTargets(fwBuilt.user).targets # <<>>
    /\ UserRule(FwEntry, <<"a">>) = <<>>
    /\ MapRule(fwBuilt.domain, <<"a">>) # <<>>
    /\ fwDisk.domain = EmptyMap
    /\ fwDisk.default = EmptyMap
    /\ fwOut.out = [targets |-> MapRule(fwBuilt.domain, <<"a">>), found |-> TRUE]

\* the user file was written after the build and the next Deliver forwards
\* to the targets it lists now
C27_WitnessUserFile ==
    /\ fwOut.op = "Deliver"
    /\ fwOut.envelope.Recipients = <<Addr(<<"a">>, FwEntry)>>
    /\ UserFileEdited
    /\ ConfigEdited
    /\ LoadTargets(fwBuilt.user).targets = <<>>
    /\ UserRule(FwEntry, <<"a">>) # <<>>
    /\ ~fwOut.message.readErr
    /\ LookedUp = DomainsOf(UserRule(FwEntry, <<"a">>))
    /\ LookedUp # <<>>

-----------------------------------------------------------------------------
(* passwd: properties *)

\* no value occurs twice in the sequence
Distinct(seq) == \A i, j \in 1..Len(seq) : seq[i] = seq[j] => i = j

\* the value occurs in the sequence
Listed(seq, u) == \E i \in 1..Len(seq) : seq[i] = u

\* what the claim says of the call recorded: ListUsers lists no username
\* twice and lists the users added and not deleted, in the order they were
\* added; AddUser of a listed username and DeleteUser of one that is not
\* listed fail and leave the list as it was
PasswdCallAsClaimed ==
    /\ pwOut.op = "ListUsers"
          => (Distinct(pwOut.after) /\ pwOut.after = pwAdded)
    /\ (pwOut.op = "AddUser" /\ Listed(pwOut.before, pwOut.username))
          => (pwOut.err # Nil /\ pwOut.after = pwOut.before)
    /\ (pwOut.op = "DeleteUser" /\ ~Listed(pwOut.before, pwOut.username))
          => (pwOut.err # Nil /\ pwOut.after = pwOut.before)

\* C28: for any sequence of AddUser and DeleteUser calls on one passwd file,
\* ListUsers never lists a username twice and lists the surviving users in
\* the order they were added; AddUser of a present username and DeleteUser
\* of an absent one return an error and leave the listed users unchanged.
C28_ListUsersDistinctInOrder == PasswdCallAsClaimed

\* the same, for the sequences of calls in which every username given to
\* AddUser has no ":", no blank at either end and no leading "#"
C28_PlainUsernames == ~pwOdd => PasswdCallAsClaimed

\* a:b was added twice, both calls succeeded, and "a" is listed twice
C28_DuplicateListed ==
    /\ pwOut.op = "ListUsers"
    /\ pwAdded = << <<"a", ":", "b">>, <<"a", ":", "b">> >>
    /\ pwOut.after = << <<"a">>, <<"a">> >>

-----------------------------------------------------------------------------
(* Forwarding: the user-level file *)

\* the file resolve reads at the user level gives no rule: it is missing, it
\* cannot be read, or it lists no target
NoUserRule(t, lp) ==
    \/ UserForwardFile(t, lp).state \in {"missing", "ioerror"}
    \/ LoadTargets(UserForwardFile(t, lp)).targets = <<>>

\* what the domain-level map and then the default-level map answer for lp
MapLevels(t, lp) ==
    IF Resolve(fwChain[t].domainForwards, lp).found
    THEN Resolve(fwChain[t].domainForwards, lp)
    ELSE IF Resolve(fwChain[t].defaultForwards, lp).found
    THEN Resolve(fwChain[t].defaultForwards, lp)
    ELSE [targets |-> <<>>, found |-> FALSE]

\* C31: when the user-forward file is missing, lists no target or cannot be
\* read, resolve answers exactly what the domain-level map and then the
\* default-level map answer, the same in all three cases; a read error at the
\* user level never ends the resolution and never reaches the caller
\* (UserExists reports no error of its own for it).
C31_UserFileFailureFallsThrough ==
    /\ (fwOut.op = "ResolveForward" /\ NoUserRule(fwOut.t, fwOut.user))
          => fwOut.out = MapLevels(fwOut.t, fwOut.user)
    /\ (fwOut.op = "UserExists" /\ NoUserRule(fwOut.t, fwOut.user)
           /\ fwOut.innerAnswer = "no")
          => fwOut.out = [exists |-> MapLevels(fwOut.t, fwOut.user).found, err |-> Nil]

\* user_forwards/a cannot be read, the tenant's map has no rule for "a", and
\* resolve answered with the default map's rule
C31_Witness ==
    /\ fwOut.op = "ResolveForward"
    /\ fwOut.t = FwEntry
    /\ fwOut.user = <<"a">>
    /\ fwChain[FwEntry].userForwardsDir
    /\ fwFiles[FwEntry][<<"a">>] = UnreadableFile
    /\ fwChain[FwEntry].domainForwards = EmptyMap
    /\ fwOut.out = [targets |-> <<Addr(<<"d">>, FwOther)>>, found |-> TRUE]

-----------------------------------------------------------------------------
(* Forwarding: loops *)

\* the rules a Deliver of tenant n[1] for local part n[2] leads to: one for
\* each target whose domain is served by a decorated agent
NextRules(n) ==
    LET r == resolve(n[1], n[2])
        Dom(i) == SplitUsername(r.targets[i])[2]
        Nested(i) == /\ Dom(i) # <<>>
                     /\ FwGetDomain(Dom(i)) # NoDomain
                     /\ fwAgent[FwGetDomain(Dom(i))] = "smart"
    IN  IF ~r.found THEN {}
        ELSE {<<FwGetDomain(Dom(i)), SplitUsername(r.targets[i])[1]>> :
                 i \in {j \in 1..Len(r.targets) : Nested(j)}}

\* every rule reachable from the rules in S, S included
RECURSIVE RulesFrom(_)
RulesFrom(S) ==
    LET T == S \cup UNION {NextRules(n) : n \in S}
    IN  IF T = S THEN S ELSE RulesFrom(T)

\* following rule n leads back to n
OnLoop(n) == n \in RulesFrom(NextRules(n))

\* the forwarding graph below the first recipient of the envelope has a loop
LoopBelow(envelope) ==
    /\ Len(envelope.Recipients) > 0
    /\ \E n \in RulesFrom({<<FwEntry, SplitUsername(envelope.Recipients[1])[1]>>}) : OnLoop(n)

\* C32: a Deliver whose forwarding graph over the served tenants has no loop
\* returns; there is no loop detection, so a Deliver that follows rules leading
\* back to a rule already followed never returns (the nested calls go on
\* without bound).
C32_DeliverReturnsIffNoLoop ==
    fwOut.op = "Deliver"
        => /\ ~LoopBelow(fwOut.envelope) => ~fwOut.out.overflow
           /\ (LoopBelow(fwOut.envelope) /\ ~fwOut.message.readErr) => fwOut.out.overflow

\* "a" of the entry tenant forwards to a@o and "a" of the other tenant
\* forwards back to a@t: the Deliver for a@t does not return
C32_Witness ==
    /\ fwOut.op = "Deliver"
    /\ fwOut.envelope.Recipients = <<Addr(<<"a">>, FwEntry)>>
    /\ ~fwOut.message.readErr
    /\ resolve(FwEntry, <<"a">>).targets = <<Addr(<<"a">>, FwOther), Addr(<<"c">>, Unserved)>>
    /\ resolve(FwOther, <<"a">>).targets = <<Addr(<<"a">>, FwEntry)>>
    /\ fwAgent[FwOther] = "smart"
    /\ fwOut.out.overflow

\* "a" forwards to b@t, "b" falls to the default wildcard and goes to d@o,
\* where no rule applies: three nested calls, no loop, and Deliver returns
C32_WitnessChain ==
    /\ fwOut.op = "Deliver"
    /\ fwOut.envelope.Recipients = <<Addr(<<"a">>, FwEntry)>>
    /\ ~fwOut.message.readErr
    /\ resolve(FwEntry, <<"a">>).targets = <<Addr(<<"b">>, FwEntry)>>
    /\ resolve(FwEntry, <<"b">>).targets = <<Addr(<<"d">>, FwOther)>>
    /\ fwAgent[FwOther] = "smart"
    /\ ~LoopBelow(fwOut.envelope)
    /\ ~fwOut.out.overflow

-----------------------------------------------------------------------------
(* ForwardMap: the shape of a built map *)

\* the keys, other than "*", that the source of the map gives a target to,
\* folded as the map stores them
SourceKeys ==
    IF fmMap.how = "Load"
    THEN {LineKey(fmFile.lines[i]) :
             i \in {j \in 1..Len(fmFile.lines) : IsRuleLine(fmFile.lines[j])}} \ {<<"*">>}
    ELSE {ToLower(k) : k \in {x \in DOMAIN fmRules.rules \ {<<"*">>} :
                                 ParseTargets(fmRules.rules[x]) # <<>>}}

\* the targets the source of the map gives to "*"; <<>> when it gives none
SourceWildcard ==
    IF fmMap.how = "Load"
    THEN IF WildcardLines = {} THEN <<>>
         ELSE LineTargets(fmFile.lines[LastOf(WildcardLines)])
    ELSE IF <<"*">> \in DOMAIN fmRules.rules
         THEN ParseTargets(fmRules.rules[<<"*">>]) ELSE <<>>

\* the source has no rule at all: FromMap(nil), FromMap of an empty map, a
\* missing file, or a file Load failed on (a nil map)
NoSource ==
    \/ fmMap.how = "FromMap" /\ DOMAIN fmRules.rules = {}
    \/ fmMap.how = "Load" /\ fmFile.state \in {"missing", "ioerror"}

\* C33: in every ForwardMap built by Load or FromMap each exact key has a
\* non-empty target list and "*" is not an exact key; the exact keys come from
\* the rules for other keys alone and the wildcard list from the "*" rules
\* alone; Resolve reports found exactly when the folded local part is an exact
\* key or the wildcard list is non-empty; a nil map, FromMap(nil) and FromMap
\* of an empty map are Empty and find nothing.
C33_MapShape ==
    fmMap.how # "none"
        => /\ \A k \in DOMAIN fmMap.m.exact : fmMap.m.exact[k] # <<>>
           /\ <<"*">> \notin DOMAIN fmMap.m.exact
           /\ fmMap.err = Nil => /\ DOMAIN fmMap.m.exact = SourceKeys
                                 /\ fmMap.m.catchall = SourceWildcard
           /\ \A r \in fmOut :
                 r.found <=> (ToLower(r.localpart) \in DOMAIN fmMap.m.exact
                                \/ fmMap.m.catchall # <<>>)
           /\ NoSource => (Empty(fmMap.m) /\ \A r \in fmOut : ~r.found)
           /\ Empty(fmMap.m) <=> (SourceKeys = {} /\ SourceWildcard = <<>>) \/ fmMap.err # Nil

\* a file with a "*" line and no other rule: the map has the wildcard list and
\* no exact key, and Resolve("*") is answered by the wildcard
C33_Witness ==
    /\ fmMap.how = "Load"
    /\ fmFile.state = "file"
    /\ WildcardLines # {}
    /\ DOMAIN fmMap.m.exact = {}
    /\ fmMap.m.catchall # <<>>
    /\ [localpart |-> <<"*">>, targets |-> fmMap.m.catchall, found |-> TRUE] \in fmOut

\* FromMap of an empty, non-nil map: Empty, and nothing found
C33_WitnessEmpty ==
    /\ fmMap.how = "FromMap"
    /\ fmRules = [declared |-> TRUE, rules |-> <<>>]
    /\ Empty(fmMap.m)
    /\ [localpart |-> <<"a">>, targets |-> <<>>, found |-> FALSE] \in fmOut

-----------------------------------------------------------------------------
(* Forwarding: envelopes with several recipients *)

\* the addresses of an envelope
RecipientsOf(env) == {env.Recipients[i] : i \in 1..Len(env.Recipients)}

\* the recorded Deliver handed the address to a store or to another tenant's
\* agent as a recipient, or names it in the error it returned
Accounted(r) ==
    \/ \E k \in 1..Len(fwOut.out.log) :
          /\ fwOut.out.log[k].ev \in {"inner", "agent"}
          /\ r \in RecipientsOf(fwOut.out.log[k].env)
    \/ \E k \in 1..Len(fwOut.out.err) : fwOut.out.err[k].target = r

\* a Deliver of an envelope with several recipients that returned, with a
\* message body that could be read
SeveralRecipients ==
    /\ fwOut.op = "Deliver"
    /\ Len(fwOut.envelope.Recipients) > 1
    /\ ~fwOut.message.readErr
    /\ ~fwOut.out.overflow

\* C36: Deliver accounts for every recipient of an envelope with more than
\* one: the first is delivered locally or forwarded by its rule, and each of
\* the others is a recipient of some delivery, local or forwarded, or is named
\* in the returned error; none is dropped because only the first recipient's
\* rule was consulted.
C36_EveryRecipientAccounted ==
    SeveralRecipients
        => \A i \in 2..Len(fwOut.envelope.Recipients) : Accounted(fwOut.envelope.Recipients[i])

\* what does hold: with no rule for the first recipient the whole envelope,
\* every recipient in it, goes to the tenant's own store
C36_NoRuleKeepsEveryRecipient ==
    (SeveralRecipients /\ ~resolve(fwOut.t, SplitUsername(fwOut.envelope.Recipients[1])[1]).found)
        => \A i \in 1..Len(fwOut.envelope.Recipients) : Accounted(fwOut.envelope.Recipients[i])

\* the envelope is for b@t and a@t, "b" is forwarded by the wildcard to b@o,
\* which is delivered; Deliver returns nil and a@t got nothing
C36_SecondRecipientDropped ==
    /\ SeveralRecipients
    /\ fwOut.envelope.Recipients = <<Addr(<<"b">>, FwEntry), Addr(<<"a">>, FwEntry)>>
    /\ resolve(FwEntry, <<"b">>).targets = <<Addr(<<"b">>, FwOther)>>
    /\ fwOut.out.err = <<>>
    /\ \E k \in 1..Len(fwOut.out.log) :
          /\ fwOut.out.log[k].ev = "inner"
          /\ fwOut.out.log[k].env.Recipients = <<Addr(<<"b">>, FwOther)>>
    /\ ~Accounted(Addr(<<"a">>, FwEntry))

-----------------------------------------------------------------------------
(* An address through the router and through delivery *)

\* addresses of the entry tenant, with and without a "+ext" part, and with a
\* local part that is a path: "../s" and "a/../a"
RoutedAddresses ==
    {Addr(<<"a">>, FwEntry), Addr(<<"a", "+", "x">>, FwEntry),
     Addr(<<"A", "+", "x">>, FwEntry), Addr(<<"b", "+", "x">>, FwEntry),
     Addr(<<".", ".", "/", "s">>, FwEntry), Addr(<<"a", "/", ".", ".", "/", "a">>, FwEntry)}

\* the registry as the router sees it: the Domains the forwarding layer serves
ServedProvider == [isNil |-> FALSE, served |-> {n \in FwNames : fwAgent[n] # "none"}]

\* AuthRouter.UserExists(address) on a router over the registry, the Domain's
\* AuthAgent being the decorated agent of the tenant; and then Deliver of a
\* message for that address by the tenant's delivery agent
DoUserExistsThenDeliver ==
    /\ fwOut.op = "none"
    /\ \E address \in RoutedAddresses, m \in Messages, innerAnswer \in ExistsAnswers :
          LET routed == RouterUserExists(ServedProvider, FALSE, address, innerAnswer,
                                         innerAnswer)
              asked == routed.calls[1]
          IN  fwOut' = [op |-> "UserExistsThenDeliver", t |-> asked.domain,
                        address |-> address, innerAnswer |-> innerAnswer,
                        message |-> m, checked |-> asked.username,
                        exists |-> MailUserExists(asked.domain, asked.username, innerAnswer),
                        read |-> IF fwChain[asked.domain].userForwardsDir
                                 THEN {Join(UserForwardsDir(asked.domain), asked.username),
                                       Join(UserForwardsDir(asked.domain),
                                            SplitUsername(address)[1])}
                                 ELSE {},
                        out |-> Deliver(asked.domain,
                                        [From |-> <<"s">>, Recipients |-> <<address>>], m, 1)]
    /\ UNCHANGED <<fwChain, fwAgent, fwStoreFails, fwFiles, fwBuilt, fwDisk>>
    /\ UNCHANGED <<routerVars, registryVars, configVars, mapVars, passwdVars>>

\* every chain, user file and kind of target tenant, the stores working
AddressInit == ForwardInit /\ fwStoreFails = {}

AddressNext == DoUserExistsThenDeliver

SpecAddress == AddressInit /\ [][AddressNext]_vars

\* the router reported the address as existing, and only a forward rule for
\* the name it checked makes it exist
ExistsByForwardOnly ==
    /\ fwOut.op = "UserExistsThenDeliver"
    /\ fwOut.innerAnswer = "no"
    /\ fwOut.exists = [exists |-> TRUE, err |-> Nil]

\* C37: for an address local+ext@domain of a served tenant, Deliver resolves
\* the same local-part key as AuthRouter.UserExists checks (the base, without
\* "+ext"): when UserExists reports the address only because of a forward
\* rule, Deliver forwards the message to that rule's targets and does not hand
\* it to the tenant's own store.
C37_ExistsByForwardIsForwarded ==
    (ExistsByForwardOnly /\ ~fwOut.message.readErr)
        => /\ fwOut.out = DeliverTargets(fwOut.t,
                                         [From |-> <<"s">>, Recipients |-> <<fwOut.address>>],
                                         fwOut.message.data,
                                         resolve(fwOut.t, fwOut.checked).targets, 1, 1)
           /\ \A k \in 1..Len(fwOut.out.log) :
                 ~(fwOut.out.log[k].ev = "inner" /\ fwOut.out.log[k].depth = 1)

\* what does hold: the claim for addresses without a "+ext" part
C37_PlainAddressForwarded ==
    (ExistsByForwardOnly /\ ~fwOut.message.readErr
        /\ ParseLocalPart(SplitUsername(fwOut.address)[1])[2] = <<>>
        /\ FirstIndex(fwOut.address, "+") = 0)
        => fwOut.out = DeliverTargets(fwOut.t,
                                      [From |-> <<"s">>, Recipients |-> <<fwOut.address>>],
                                      fwOut.message.data,
                                      resolve(fwOut.t, fwOut.checked).targets, 1, 1)

\* a+x@t exists for the router by the exact rule for "a"; no rule matches
\* "a+x", and Deliver stored the message in the tenant's own store
C37_ExtensionStoredLocally ==
    /\ ExistsByForwardOnly
    /\ fwOut.address = Addr(<<"a", "+", "x">>, FwEntry)
    /\ fwOut.checked = <<"a">>
    /\ ~resolve(FwEntry, <<"a", "+", "x">>).found
    /\ Len(fwOut.out.log) = 1
    /\ fwOut.out.log[1].ev = "inner"
    /\ fwOut.out.log[1].to = FwEntry

-----------------------------------------------------------------------------
(* Forwarding: letter case of the local part *)

\* C38: resolve is case-insensitive in the local part at every level: for the
\* local part as given and for its lower-cased form it returns the same
\* targets and the same found, also when the rule is in a user-level file.
C38_ResolveIgnoresCase ==
    fwOut.op = "ResolveForward"
        => fwOut.out = resolve(fwOut.t, ToLower(fwOut.user))

\* what does hold: the claim when the lower-cased local part has no rule at
\* the user level, the two maps being folded by ForwardMap.Resolve
C38_MapLevelsIgnoreCase ==
    (fwOut.op = "ResolveForward"
        /\ (~fwChain[fwOut.t].userForwardsDir \/ NoUserRule(fwOut.t, ToLower(fwOut.user))))
        => fwOut.out = resolve(fwOut.t, ToLower(fwOut.user))

\* user_forwards/a lists two targets: resolve("a") returns them, and
\* resolve("A"), which reads user_forwards/A, found nothing at all
C38_UpperCaseMissesUserFile ==
    /\ fwOut.op = "ResolveForward"
    /\ fwOut.t = FwEntry
    /\ fwOut.user = <<"A">>
    /\ fwOut.out = [targets |-> <<>>, found |-> FALSE]
    /\ resolve(FwEntry, <<"a">>)
          = [targets |-> <<Addr(<<"u">>, FwOther), Addr(<<"u">>, Unserved)>>, found |-> TRUE]

-----------------------------------------------------------------------------
(* Forwarding: the path of the user-level file *)

\* the path names a file directly inside the tenant's user_forwards directory
DirectChild(t, path) ==
    /\ Len(path) = Len(UserForwardsDir(t)) + 1
    /\ SubSeq(path, 1, Len(UserForwardsDir(t))) = UserForwardsDir(t)

\* C39: whatever local part reaches resolve, from a username through
\* UserExists or from a recipient through Deliver, the user-level lookup reads
\* only a file that is a direct child of the tenant's user_forwards directory:
\* a local part with a path separator or ".." never makes a file outside that
\* directory the list of forward targets.
C39_UserFileInsideDirectory ==
    fwOut.op = "UserExistsThenDeliver"
        => /\ \A path \in fwOut.read : DirectChild(fwOut.t, path)
           /\ \A k \in 1..Len(fwOut.out.log) :
                 fwOut.out.log[k].ev = "agent" /\ fwOut.out.log[k].depth = 1
                     => fwOut.out.log[k].env.Recipients # <<SiblingFile.lines[1]>>

\* what does hold: the claim for local parts without "/"
C39_PlainLocalPartInsideDirectory ==
    (fwOut.op = "UserExistsThenDeliver"
        /\ FirstIndex(SplitUsername(fwOut.address)[1], "/") = 0)
        => \A path \in fwOut.read : DirectChild(fwOut.t, path)

\* the address ../s@t: UserExists and Deliver read {t}/s, outside
\* user_forwards; the address exists because of that file and the message
\* went to the address the file holds
C39_SiblingFileRead ==
    /\ fwOut.op = "UserExistsThenDeliver"
    /\ fwOut.address = Addr(<<".", ".", "/", "s">>, FwEntry)
    /\ fwOut.read = {<<FwEntry, SiblingName>>}
    /\ fwOut.innerAnswer = "no"
    /\ fwOut.exists = [exists |-> TRUE, err |-> Nil]
    /\ fwAgent[FwOther] = "store"
    /\ ~fwOut.message.readErr
    /\ Len(fwOut.out.log) = 3
    /\ fwOut.out.log[2].ev = "agent"
    /\ fwOut.out.log[2].env.Recipients = <<SiblingFile.lines[1]>>

-----------------------------------------------------------------------------
(* ForwardMap: building the same map twice *)

\* Resolve on another ForwardMap answers the recorded call as it was answered
SameAnswer(m, r) == Resolve(m, r.localpart) = [targets |-> r.targets, found |-> r.found]

\* no two keys of the rules map differ in letter case only
KeysFoldApart ==
    \A k1, k2 \in DOMAIN fmRules.rules : ToLower(k1) = ToLower(k2) => k1 = k2

\* C40: FromMap is a function of its input: a second ForwardMap built from an
\* equal rules map answers every Resolve as the first one did, also when the
\* rules hold two keys that differ in letter case only.
C40_FromMapDeterministic ==
    fmMap.how = "FromMap"
        => \A again \in FromMapOutcomes(fmRules) : \A r \in fmOut : SameAnswer(again, r)

\* what does hold: the claim for rules whose keys stay distinct when folded
C40_DistinctKeysDeterministic ==
    (fmMap.how = "FromMap" /\ KeysFoldApart)
        => /\ FromMapOutcomes(fmRules) = {fmMap.m}
           /\ \A again \in FromMapOutcomes(fmRules) : \A r \in fmOut : SameAnswer(again, r)

\* the rules hold "a" -> d and "A" -> T: this build answered Resolve("a")
\* with d, another build of the same rules answers t
C40_TwoBuildsDiffer ==
    /\ fmMap.how = "FromMap"
    /\ fmRules.rules = (<<"a">> :> <<"d">>) @@ (<<"A">> :> <<"T">>)
    /\ [localpart |-> <<"a">>, targets |-> << <<"d">> >>, found |-> TRUE] \in fmOut
    /\ \E again \in FromMapOutcomes(fmRules) :
          Resolve(again, <<"a">>) = [targets |-> << <<"t">> >>, found |-> TRUE]

====
